---- MODULE Spec2Model ----
(***************************************************************************)
(* A model of the syscall-site patching engine and the ptrace task         *)
(* machine of reverie (src/src/traced_task.rs, src/src/remote.rs,          *)
(* src/reverie/src/stubs.rs).                                              *)
(*                                                                         *)
(* Representation.  The integers of the model checker are 32 bits wide, so *)
(* a 64-bit tracee address is the record [pg, off]: its 4 KiB page number  *)
(* and its offset in that page.  Page-aligned quantities of the code       *)
(* (mapping bounds, stub page addresses, the 2 GiB window) are kept in     *)
(* pages.  The tracer's state is one record per task plus one heap per     *)
(* Rc<RefCell<..>> collection, indexed by handle: two tasks share a        *)
(* collection exactly when they hold the same handle.  The tracee side     *)
(* (kernel threads, their registers, the address spaces) is the            *)
(* environment the ptrace calls of the code act on.                        *)
(***************************************************************************)
EXTENDS Integers, Sequences, FiniteSets, TLC

----------------------------------------------------------------------------
(* Bounds of the model *)

\* number of tasks (tids) that can exist over a run
MaxTasks == 2

\* the number of events of a run: the stops the tracees make (syscall traps,
\* forks, execs, exits, signals) and the steps and injected syscalls that do
\* not end as the tracer expects
MaxEvents == 4

----------------------------------------------------------------------------
(* Program constants *)

\* remote.rs:264  page_size = 0x1000
PAGE_SIZE == 4096
\* consts.rs:17
SYSCALL_INSN_SIZE == 2
\* remote.rs:142
JMP_INSN_SIZE == 5
\* stubs.rs:59  extended_jump_size() = 0x80
EXTENDED_JUMP_SIZE == 128
\* stubs.rs:64  extended_jump_pages() = 2
EXTENDED_JUMP_PAGES == 2
\* traced_task.rs:359  two_gb = 2 << 30 bytes, in pages
TWO_GB_PAGES == 524288
\* remote.rs:265  one_mb = 0x100000 bytes, in pages
ONE_MB_PAGES == 256
\* consts.rs:21  the private page 0x7000_0000, as a page number
PRIVATE_PAGE == 458752
\* consts.rs:22  size 0x4000 of the private page, in pages
PRIVATE_PAGE_PAGES == 4
\* consts.rs:31  REVERIE_LOCAL_BASE = 0x7000_1000 lies in this page
LOCAL_BASE_PAGE == 458753
\* remote.rs:277  base of the high sentinel 0xffffffff_ffff_8000: beyond the
\* integers of the model; the largest page number stands for it (every page
\* of the model lies far below, so every comparison comes out the same)
TOP_SENTINEL_PAGE == 2147483647
\* traced_task.rs:393  SYS_mmap
SYS_mmap == 9
\* traced_task.rs:417  SYS_mprotect
SYS_mprotect == 10

\* Values of the Linux x86-64 ABI that the tracees and the kernel use: rax
\* holds -ENOSYS at a seccomp stop, the sites of the sample program call
\* getpid, a failed injected syscall returns -EINVAL (any of -4095..-1).
Linux == [ENOSYS |-> 38, SYS_getpid |-> 39, EINVAL |-> 22, SIGKILL |-> 9]

\* Option::None of an integer field
NONE == 0 - 1

\* `let v = ...` of the code: v is evaluated once and handed to what follows
Let(v, F(_)) == F(v)

----------------------------------------------------------------------------
(* Addresses *)

Addr(pg, off) == [pg |-> pg, off |-> off]

\* a + n bytes, |n| < 4096
AddrAdd(a, n) ==
    LET t == a.off + n
    IN  IF t < 0 THEN [pg |-> a.pg - 1, off |-> t + PAGE_SIZE]
        ELSE IF t >= PAGE_SIZE THEN [pg |-> a.pg + 1, off |-> t - PAGE_SIZE]
        ELSE [pg |-> a.pg, off |-> t]

\* a <= b as u64
AddrLeq(a, b) == a.pg < b.pg \/ (a.pg = b.pg /\ a.off <= b.off)

\* b - a <= n pages (in bytes: b - a <= n * 4096), for a <= b
WithinPages(a, b, n) ==
    \/ b.pg - a.pg < n
    \/ (b.pg - a.pg = n /\ b.off <= a.off)

PageAddr(pg) == Addr(pg, 0)

----------------------------------------------------------------------------
(* Bytes *)

RECURSIVE LE(_, _)
\* the n low bytes of x, least significant first (x >> 8k & 0xff)
LE(x, n) == IF n = 0 THEN <<>> ELSE <<x % 256>> \o LE(x \div 256, n - 1)

Zeros(n) == [i \in 1..n |-> 0]

Prefix(s, n) == SubSeq(s, 1, n)

\* s with the bytes of b written over it from (1-based) position p
Overwrite(s, p, b) ==
    [i \in 1..Len(s) |-> IF i >= p /\ i < p + Len(b) THEN b[i - p + 1] ELSE s[i]]

Range(s) == {s[i] : i \in DOMAIN s}

----------------------------------------------------------------------------
(* The hook catalog and the sample program image *)

\* The catalog is loaded once from the helper library (traced_task.rs:38-46);
\* ffi.rs:30-35 names the helper's trampolines by the bytes that follow the
\* syscall instruction.  A hook is its offset in the library and those bytes.
SYSCALL_HOOKS ==
    << [offset |-> 4352, instructions |-> <<72, 61, 1, 240, 255, 255>>],
       [offset |-> 4480, instructions |-> <<144, 144, 144>>],
       [offset |-> 4608, instructions |-> <<72, 139, 60, 36>>] >>

\* a page of the program text at 0x40_0000 and one of a library more than
\* 2 GiB away from it
TextPage == 4 * ONE_MB_PAGES
FarPage == TextPage + 2048 * TWO_GB_PAGES
\* a page of the program with no room behind it
TopPage == TOP_SENTINEL_PAGE - EXTENDED_JUMP_PAGES

\* syscall sites of the image: the address of the 0f 05
SiteA == Addr(TextPage, 256)
SiteC == Addr(TextPage, 512)
\* the syscall instruction of SiteFar is the last two bytes of its page
SiteFar == Addr(FarPage, PAGE_SIZE - SYSCALL_INSN_SIZE)
SiteTop == Addr(TopPage, 256)
Sites == {SiteA, SiteC, SiteFar, SiteTop}

\* the 16 bytes that follow the syscall instruction of a site: SiteA, SiteFar
\* and SiteTop are followed by the bytes of a hook, SiteC by bytes of no hook
TailOf(s) ==
    IF s \in {SiteA, SiteTop} THEN <<72, 61, 1, 240, 255, 255, 119, 1, 195>> \o Zeros(7)
    ELSE IF s = SiteFar THEN <<72, 139, 60, 36, 195>> \o Zeros(11)
    ELSE <<137, 199, 195>> \o Zeros(13)

\* the 18 bytes of the image at a site: 0f 05 and what follows
WindowOf(s) == <<15, 5>> \o TailOf(s)

\* the value the helper library stores in the SYSCALL_TRAMPOLINE slot once it
\* is loaded (an address inside the library, loaded at 0x1000_0000)
HelperBase == ONE_MB_PAGES * ONE_MB_PAGES * PAGE_SIZE
TrampolineValue == HelperBase + 564

\* the 8 bytes of the image at its entry point
EntryBytes == <<49, 237, 73, 137, 209, 94, 72, 137>>

\* The address space a fresh exec gives: the text pages r-x, no private
\* page yet, the code of the image unpatched.
ExecImage ==
    [ image |-> "program",
      pages |-> (TextPage :> "r-x") @@ (FarPage :> "r-x") @@ (FarPage + 1 :> "r-x")
                    @@ (TopPage :> "r-x"),
      text  |-> [s \in Sites |-> WindowOf(s)],
      stubs |-> <<>>,
      priv  |-> <<>>,
      entry |-> EntryBytes,
      tramp |-> 0 ]

----------------------------------------------------------------------------
(* The tracee side: what the ptrace calls of the code act on.              *)
(* A world w is the record of all state variables; an operator that models *)
(* code takes a world and returns the world after it.                      *)

AS(w, tid) == w.mem[w.thr[tid].as]

Mapped(w, tid, pg) == pg \in DOMAIN AS(w, tid).pages

Writable(w, tid, pg) ==
    Mapped(w, tid, pg) /\ AS(w, tid).pages[pg] \in {"rwx", "-w-"}

Panic(w) == [w EXCEPT !.tracer = "panicked"]

\* ptrace::read of the 8 bytes of the SYSCALL_TRAMPOLINE slot: Err when the
\* private page is not mapped
ReadTrampolineSlot(w, tid) ==
    IF Mapped(w, tid, LOCAL_BASE_PAGE) THEN AS(w, tid).tramp ELSE NONE

RECURSIVE SortedSeq(_)
SortedSeq(S) ==
    IF S = {} THEN <<>>
    ELSE LET m == CHOOSE x \in S : \A y \in S : x <= y
         IN  <<m>> \o SortedSeq(S \ {m})

\* /proc/<pid>/maps: the mapped ranges [base, end) in ascending order (pages);
\* adjacent pages of one protection form one range
DecodeProcMaps(w, pid) ==
    Let(AS(w, pid).pages, LAMBDA pages :
    Let(SortedSeq({p \in DOMAIN pages :
                      ~(p - 1 \in DOMAIN pages /\ pages[p - 1] = pages[p])}),
        LAMBDA ss :
          [i \in 1..Len(ss) |->
              [base |-> ss[i],
               end  |-> 1 + CHOOSE q \in DOMAIN pages :
                              /\ q >= ss[i]
                              /\ \A r \in ss[i]..q : r \in DOMAIN pages /\ pages[r] = pages[q]
                              /\ ~(q + 1 \in DOMAIN pages /\ pages[q + 1] = pages[q])]]))

\* remote.rs:283: space = x2 - y1 in u64, and space >= pages * page_size.
\* Where x2 < y1 the subtraction wraps (the overflow checks of a debug build
\* are not taken to be compiled in, as its debug assertions are not): the
\* space is then more than 2^63 bytes, which holds any number of pages.
SpaceHolds(x2, y1, pages) == x2 < y1 \/ x2 - y1 >= pages

\* remote.rs:264-308: the search in the mappings that decode_proc_maps gave.
\* `pages` is multiplied by the page size by the code; here it is in pages.
search_stub_page(mappings, addr_hint, pages) ==
    Let(<<[base |-> ONE_MB_PAGES - 1, end |-> ONE_MB_PAGES]>> \o mappings,
        LAMBDA ranges_from :
    Let(mappings \o <<[base |-> TOP_SENTINEL_PAGE, end |-> TOP_SENTINEL_PAGE]>>,
        LAMBDA ranges_to :
    Let({i \in 1..Len(ranges_from) :
            /\ SpaceHolds(ranges_to[i].base, ranges_from[i].end, pages)
            /\ \/ /\ AddrLeq(PageAddr(ranges_from[i].end), addr_hint)
                  /\ WithinPages(PageAddr(ranges_from[i].end), addr_hint,
                                 TWO_GB_PAGES - ONE_MB_PAGES)
               \/ /\ AddrLeq(addr_hint, PageAddr(ranges_from[i].end))
                  /\ WithinPages(addr_hint, PageAddr(ranges_from[i].end),
                                 TWO_GB_PAGES - ONE_MB_PAGES - pages)},
        LAMBDA res :
          IF res = {} THEN [ok |-> FALSE, val |-> 0]
          ELSE [ok |-> TRUE,
                val |-> ranges_from[CHOOSE j \in res : \A k \in res : j <= k].end])))

\* search for spare page(s) within +/- 2GB of addr_hint (remote.rs:262-309)
SearchStubPage(w, pid, addr_hint, pages) ==
    search_stub_page(DecodeProcMaps(w, pid), addr_hint, pages)

\* What the kernel does with an injected mmap(MAP_FIXED) or mprotect over the
\* pages pg .. pg+n-1 of the address space of tid.
KernelSyscall(w, tid, nr, pg, n, prot) ==
    LET a == w.thr[tid].as
        old == w.mem[a].pages
        range == pg..(pg + n - 1)
    IN  IF nr = SYS_mmap
        THEN [w EXCEPT !.mem[a].pages =
                           [p \in DOMAIN old \cup range |->
                               IF p \in range THEN prot ELSE old[p]],
                       !.mem[a].stubs =
                           [p \in DOMAIN w.mem[a].stubs \ range |-> w.mem[a].stubs[p]]]
        ELSE [w EXCEPT !.mem[a].pages =
                           [p \in DOMAIN old |-> IF p \in range THEN prot ELSE old[p]]]

\* the injection that hands the registers back only when the syscall gave a
\* result: after an error or a SIGCHLD they stay as the gadget left them
RemoteDoSyscallAt_NoRestore(w, tid, rip, nr, pg, n, prot, oc) ==
    LET oldregs == w.thr[tid].regs
        armed == [oldregs EXCEPT !.orig_rax = nr, !.rax = nr, !.rip = rip]
    IN  IF oc = "other" \/ ~Mapped(w, tid, rip.pg) \/ AS(w, tid).priv = <<>>
        THEN [w |-> Panic(w), ok |-> FALSE, val |-> Addr(0, 0)]
        ELSE IF oc = "sigchld"
        THEN [w   |-> [w EXCEPT !.tasks[tid].signal_to_deliver = "SIGCHLD",
                                !.thr[tid].regs = armed, !.eff.injected = TRUE],
              ok  |-> TRUE,
              val |-> Addr(0, nr)]
        ELSE IF oc = "err" \/ (nr = SYS_mprotect /\ \E p \in pg..(pg + n - 1) : ~Mapped(w, tid, p))
        THEN [w |-> [w EXCEPT !.thr[tid].regs = armed, !.eff.injected = TRUE],
              ok |-> FALSE, val |-> Addr(0, Linux.EINVAL)]
        ELSE [w   |-> [KernelSyscall(w, tid, nr, pg, n, prot)
                          EXCEPT !.thr[tid].regs = oldregs, !.eff.injected = TRUE],
              ok  |-> TRUE,
              val |-> IF nr = SYS_mmap THEN PageAddr(pg) ELSE Addr(0, 0)]

\* inject a syscall into the stopped tracee (traced_task.rs:536-589).  oc is
\* what the wait after the resume reports: "ok" (SIGTRAP of the int3, the
\* syscall done), "err" (SIGTRAP, the syscall failed), "sigchld" (a SIGCHLD
\* stop before the syscall ran: rax still holds the syscall number) or
\* "other" (any other status).  Returns the world, and Ok(val) or Err.
RemoteDoSyscallAt(w, tid, rip, nr, pg, n, prot, oc) ==
    LET oldregs == w.thr[tid].regs
        call == [nr |-> nr, pg |-> pg, n |-> n, prot |-> prot]
        enomem == nr = SYS_mprotect /\ \E p \in pg..(pg + n - 1) : ~Mapped(w, tid, p)
        retval == IF nr = SYS_mmap THEN PageAddr(pg) ELSE Addr(0, 0)
    IN  IF oc = "other" \/ ~Mapped(w, tid, rip.pg) \/ AS(w, tid).priv = <<>>
        THEN [w |-> Panic(w), ok |-> FALSE, val |-> Addr(0, 0)]
        ELSE IF oc = "sigchld"
        THEN [w   |-> [w EXCEPT !.tasks[tid].signal_to_deliver = "SIGCHLD",
                                !.thr[tid].regs = oldregs,
                                !.eff.injected = TRUE,
                                !.eff.calls = Append(@, call)],
              ok  |-> TRUE,
              val |-> Addr(0, nr)]
        ELSE IF oc = "err" \/ enomem
        THEN [w |-> [w EXCEPT !.thr[tid].regs = oldregs, !.eff.injected = TRUE,
                              !.eff.calls = Append(@, call)],
              ok |-> FALSE, val |-> Addr(0, Linux.EINVAL)]
        ELSE [w   |-> [KernelSyscall(w, tid, nr, pg, n, prot)
                          EXCEPT !.thr[tid].regs = oldregs, !.eff.injected = TRUE,
                                 !.eff.calls = Append(@, call)],
              ok  |-> TRUE,
              val |-> retval]

\* traced_task.rs:506-517: the untraced gadget at 0x7000_0008
UntracedSyscall(w, tid, nr, pg, n, prot, oc) ==
    RemoteDoSyscallAt(w, tid, Addr(PRIVATE_PAGE, 8), nr, pg, n, prot, oc)

\* the bytes land in the tracee: in the code window of a site, or at the
\* start of a (stub) page
Store(w, tid, addr, bytes) ==
    LET a == w.thr[tid].as
    IN  IF addr \in Sites
        THEN [w EXCEPT !.mem[a].text[addr] = Overwrite(@, 1, bytes),
                       !.eff.poked = TRUE]
        ELSE [w EXCEPT !.mem[a].stubs = (addr.pg :> bytes) @@ @,
                       !.eff.poked = TRUE]

\* what the word copy of poke_bytes may come to
PokeOutcome == {"ok", "clobber", "crash"}

\* traced_task.rs:452-482.  Up to 8 bytes go through ptrace peek/poke of one
\* word (which ignores page protections), more through process_vm_writev
\* (which writes up to the first page that is not writable); both `expect`.
\* The word is built with copy_nonoverlapping(bytes as *const u64, &mut
\* u64_val, size) (line 463): the count is in words, so size * 8 bytes are
\* read from behind the slice and written over the 8-byte local.  That is
\* undefined for size >= 2; oc is what comes of it: "ok" (the word is bytes
\* and then what the tracee had), "clobber" (the rest of the word is what lay
\* behind the slice; zeros stand for it) or "crash" (the tracer dies of the
\* overwritten stack).
PokeBytes(w, tid, addr, bytes, oc) ==
    LET size == Len(bytes)
        wordEnd == AddrAdd(addr, 7)
        inFirst == PAGE_SIZE - addr.off
    IN  IF size <= 8
        THEN IF \E p \in addr.pg..wordEnd.pg : ~Mapped(w, tid, p)
             THEN Panic(w)
             ELSE IF size >= 2 /\ oc = "crash" THEN Panic(w)
             ELSE IF size >= 2 /\ oc = "clobber"
             THEN Store(w, tid, addr, bytes \o Zeros(8 - size))
             ELSE Store(w, tid, addr, bytes)
        ELSE IF ~Writable(w, tid, addr.pg)
             THEN Panic(w)
             ELSE IF size > inFirst /\ ~Writable(w, tid, addr.pg + 1)
             THEN Store(w, tid, addr, Prefix(bytes, inFirst))
             ELSE Store(w, tid, addr, bytes)

----------------------------------------------------------------------------
(* The tracer: stubs.rs, remote.rs and traced_task.rs *)

Panicked(w) == w.tracer = "panicked"

\* a u64 is held as its four 16-bit words, least significant first; U64(n)
\* is the u64 of an integer of the model
U64(n) == <<n % 65536, n \div 65536, 0, 0>>

\* stubs.rs:33-40: (jump_address.wrapping_shr(8 * j) & 0xff) as u8
ShrByte(x, j) == (x[(j \div 2) + 1] \div (IF j % 2 = 0 THEN 1 ELSE 256)) % 256

\* the jump with the low four bytes of its target only
gen_extended_jump_Low(jump_address) ==
    <<255, 37, 0, 0, 0, 0>> \o [j \in 1..4 |-> ShrByte(jump_address, j - 1)] \o Zeros(4)

\* stubs.rs:28-45: ff 25 00 00 00 00 and the 64-bit target
gen_extended_jump(jump_address) ==
    <<255, 37, 0, 0, 0, 0>> \o [j \in 1..8 |-> ShrByte(jump_address, j - 1)]

RECURSIVE gen_stubs_from(_, _, _)
gen_stubs_from(hooks, addr, k) ==
    IF k > Len(hooks) THEN <<>>
    ELSE LET stub == gen_extended_jump(U64(hooks[k].offset + addr))
         IN  stub \o Zeros(EXTENDED_JUMP_SIZE - Len(stub))
                  \o gen_stubs_from(hooks, addr, k + 1)

\* stubs that take a page for each hook
gen_extended_jump_stubs_Wide(hooks, addr) ==
    gen_stubs_from(hooks, addr, 1) \o Zeros((PAGE_SIZE - EXTENDED_JUMP_SIZE) * Len(hooks))

\* stubs.rs:69-85: one 128-byte slot per hook of the catalog
gen_extended_jump_stubs(hooks, addr) == gen_stubs_from(hooks, addr, 1)

\* traced_task.rs:28-36
libsystrace_load_address(w, pid) ==
    LET addr == ReadTrampolineSlot(w, pid)
    IN  IF addr # NONE /\ addr # 0 THEN addr - (addr % PAGE_SIZE) ELSE NONE

\* traced_task.rs:222-227
update_memory_map(w, tid) ==
    [w EXCEPT !.memory_map[w.tasks[tid].memory_map] =
                  DecodeProcMaps(w, w.tasks[tid].pid)]

\* code is the bytes from the syscall instruction on: the two peeks read the
\* 16 bytes that follow the instruction
Peeked(code) == SubSeq(code, SYSCALL_INSN_SIZE + 1, SYSCALL_INSN_SIZE + 16)

\* the 16 bytes the two peeks of find_syscall_hook read at rip
Peek16(w, tid, rip) ==
    LET s == AddrAdd(rip, 0 - SYSCALL_INSN_SIZE)
    IN  IF s \in Sites THEN Peeked(AS(w, tid).text[s]) ELSE Zeros(16)

\* a lookup that prefers the hook with the longest matching prologue
FindSyscallHookIn_Longest(hooks, bytes) ==
    LET it == {k \in 1..Len(hooks) :
                  Prefix(bytes, Len(hooks[k].instructions)) = hooks[k].instructions}
    IN  IF it = {} THEN [ok |-> FALSE, hook |-> SYSCALL_HOOKS[1]]
        ELSE [ok |-> TRUE,
              hook |-> hooks[CHOOSE k \in it :
                          \A j \in it :
                              \/ Len(hooks[j].instructions) < Len(hooks[k].instructions)
                              \/ /\ Len(hooks[j].instructions) = Len(hooks[k].instructions)
                                 /\ k <= j]]

\* traced_task.rs:243-257: the filter over the catalog and its first element,
\* the first hook whose instructions are a prefix of the bytes read
FindSyscallHookIn(hooks, bytes) ==
    LET it == {k \in 1..Len(hooks) :
                  Prefix(bytes, Len(hooks[k].instructions)) = hooks[k].instructions}
    IN  IF it = {} THEN [ok |-> FALSE, hook |-> SYSCALL_HOOKS[1]]
        ELSE [ok |-> TRUE, hook |-> hooks[CHOOSE k \in it : \A j \in it : k <= j]]

\* traced_task.rs:229-257
find_syscall_hook(w, tid, rip) == FindSyscallHookIn(SYSCALL_HOOKS, Peek16(w, tid, rip))

\* traced_task.rs:329-339: 0-based index of the first hook equal to curr
HookIndexIn(hooks, curr) ==
    (CHOOSE k \in 1..Len(hooks) :
        /\ hooks[k] = curr
        /\ \A j \in 1..(k - 1) : hooks[j] # curr) - 1

hook_index(curr) == HookIndexIn(SYSCALL_HOOKS, curr)

\* traced_task.rs:341-347
extended_jump_offset_from_stub_page(curr) == hook_index(curr) * EXTENDED_JUMP_SIZE

\* a skip that leaves the syscall number as it is: the syscall stays pending
skip_seccomp_syscall_Pending(w, tid, regs, oc) ==
    IF oc # "trap" THEN Panic(w) ELSE w

\* traced_task.rs:770-778.  oc is what the wait after the single step
\* reports: "trap" or anything else.  The kernel skips the pending syscall.
skip_seccomp_syscall(w, tid, regs, oc) ==
    Let([w EXCEPT !.thr[tid].regs = [regs EXCEPT !.orig_rax = 0 - 1],
                  !.thr[tid].insys = FALSE],
        LAMBDA stepped :
      IF oc # "trap" THEN Panic(stepped)
      ELSE [stepped EXCEPT !.thr[tid].regs = regs, !.eff.skipped = TRUE])

\* a padding of one-byte NOPs
NopPadding_Bytes(padding_size) == [i \in 1..padding_size |-> 144]

\* remote.rs:162-226: the NOP of each padding size
NopPadding(padding_size) ==
    CASE padding_size = 0 -> <<>>
      [] padding_size = 1 -> <<144>>
      [] padding_size = 2 -> <<102, 144>>
      [] padding_size = 3 -> <<15, 31, 0>>
      [] padding_size = 4 -> <<15, 31, 64, 0>>
      [] padding_size = 5 -> <<15, 31, 68, 0, 0>>
      [] padding_size = 6 -> <<102, 15, 31, 68, 0, 0>>
      [] padding_size = 7 -> <<15, 31, 128, 0, 0, 0, 0>>
      [] padding_size = 8 -> <<15, 31, 132, 0, 0, 0, 0, 0>>
      [] padding_size = 9 -> <<102, 15, 31, 132, 0, 0, 0, 0, 0>>

\* remote.rs:147: -2^31 <= rela < 2^31 for rela = d * 4096 + o bytes
\* (d pages and o bytes, |o| < 2 * 4096)
RelaInRange(d, o) ==
    /\ IF d - TWO_GB_PAGES <= 0 - 3 THEN TRUE
       ELSE IF d - TWO_GB_PAGES >= 3 THEN FALSE
       ELSE (d - TWO_GB_PAGES) * PAGE_SIZE + o < 0
    /\ IF d + TWO_GB_PAGES >= 3 THEN TRUE
       ELSE IF d + TWO_GB_PAGES <= 0 - 3 THEN FALSE
       ELSE (d + TWO_GB_PAGES) * PAGE_SIZE + o >= 0

\* remote.rs:145-227: the bytes patch_at builds for a hook and a displacement
\* rela of d pages and o bytes, with its three assertions (147, 160, 227).
\* A prologue of less than 3 bytes makes the padding wrap below 0 and fails
\* the second.
patch_bytes(hook, rela) ==
    Let(SYSCALL_INSN_SIZE + Len(hook.instructions) - JMP_INSN_SIZE,
        LAMBDA padding_size :
      IF ~RelaInRange(rela.d, rela.o) \/ padding_size \notin 0..9
      THEN [ok |-> FALSE, bytes |-> <<>>]
      ELSE
    \* rela = (d * 16 + o \div 256) * 256 + o % 256
    Let(<<232, rela.o % 256>> \o LE(rela.d * 16 + (rela.o \div 256), 3)
            \o NopPadding(padding_size),
        LAMBDA bytes :
      [ok |-> Len(bytes) = Len(hook.instructions) + SYSCALL_INSN_SIZE,
       bytes |-> bytes]))

\* remote.rs:146: rela = target - ip - jmp_insn_size, as pages and bytes
RelaOf(target, ip) ==
    [d |-> target.pg - ip.pg, o |-> target.off - ip.off - JMP_INSN_SIZE]

\* remote.rs:137-258.  orc gives the outcomes of the two injected mprotect.
patch_at(w, tid, hook, target, orc) ==
    Let(w.thr[tid].regs, LAMBDA regs :
    Let(AddrAdd(regs.rip, 0 - SYSCALL_INSN_SIZE), LAMBDA ip :
    Let(RelaOf(target, ip), LAMBDA rela :
    Let(patch_bytes(hook, rela), LAMBDA built :
      IF ~built.ok THEN [w |-> Panic(w), ok |-> FALSE]
      ELSE
    Let(built.bytes, LAMBDA bytes :
    \* ((ip + len) & !0xfff) < len holds only in page 0
    Let(IF AddrAdd(ip, Len(bytes)).pg = 0 THEN 2 ELSE 1, LAMBDA size :
    Let(UntracedSyscall(w, tid, SYS_mprotect, ip.pg, size, "-w-", orc.mprot_w),
        LAMBDA m1 :
      IF Panicked(m1.w) \/ ~m1.ok THEN [w |-> Panic(m1.w), ok |-> FALSE]
      ELSE
    Let(PokeBytes(m1.w, tid, ip, bytes, orc.poke), LAMBDA w2 :
      IF Panicked(w2) THEN [w |-> w2, ok |-> FALSE]
      ELSE
    Let(UntracedSyscall(w2, tid, SYS_mprotect, ip.pg, size, "r-x", orc.mprot_rx),
        LAMBDA m2 :
      IF Panicked(m2.w) \/ ~m2.ok THEN [w |-> Panic(m2.w), ok |-> FALSE]
      ELSE [w |-> [m2.w EXCEPT !.thr[tid].regs =
                      [regs EXCEPT !.rax = regs.orig_rax, !.rip = ip]],
            ok |-> TRUE])))))))))

\* traced_task.rs:389-429.  orc gives the outcomes of the injected mmap and
\* mprotect.  Returns the world and Ok(page) or Err.
allocate_extended_jumps(w, tid, rip, orc) ==
    Let(w.tasks[tid], LAMBDA task :
    \* the size in bytes is passed as the number of pages
    Let(SearchStubPage(w, tid, rip, EXTENDED_JUMP_PAGES * PAGE_SIZE), LAMBDA at :
      IF ~at.ok THEN [w |-> w, ok |-> FALSE, val |-> 0]
      ELSE
    Let(UntracedSyscall(w, tid, SYS_mmap, at.val, EXTENDED_JUMP_PAGES, "rwx", orc.mmap),
        LAMBDA m :
      IF Panicked(m.w) \/ ~m.ok THEN [w |-> m.w, ok |-> FALSE, val |-> 0]
      ELSE IF m.val # PageAddr(at.val) THEN [w |-> Panic(m.w), ok |-> FALSE, val |-> 0]
      ELSE IF task.ldpreload_address = NONE THEN [w |-> m.w, ok |-> FALSE, val |-> 0]
      ELSE
    Let(gen_extended_jump_stubs(SYSCALL_HOOKS, task.ldpreload_address), LAMBDA stubs :
    Let([m.w EXCEPT !.stub_pages[task.stub_pages] =
            Append(@, [address |-> at.val, size |-> EXTENDED_JUMP_PAGES,
                       allocated |-> Len(stubs)])],
        LAMBDA w2 :
    Let(PokeBytes(w2, tid, PageAddr(at.val), stubs, "ok"), LAMBDA w3 :
      IF Panicked(w3) THEN [w |-> w3, ok |-> FALSE, val |-> 0]
      ELSE
    Let(UntracedSyscall(w3, tid, SYS_mprotect, at.val, EXTENDED_JUMP_PAGES, "r-x",
                        orc.mprot_stub),
        LAMBDA p :
      IF Panicked(p.w) \/ ~p.ok THEN [w |-> p.w, ok |-> FALSE, val |-> 0]
      ELSE [w |-> update_memory_map(p.w, tid), ok |-> TRUE, val |-> at.val])))))))

\* traced_task.rs:364-372: is the stub page within 2 GiB of rip
StubPageReachable(page, rip) ==
    LET start == PageAddr(page.address)
        end == PageAddr(page.address + page.size)
    IN  IF AddrLeq(end, rip) THEN WithinPages(start, rip, TWO_GB_PAGES)
        ELSE IF AddrLeq(rip, start)
        THEN WithinPages(rip, PageAddr(page.address + EXTENDED_JUMP_PAGES),
                         TWO_GB_PAGES)
        ELSE FALSE

\* traced_task.rs:357-383.  Returns the world and Ok(address of the slot).
extended_jump_from_to(w, tid, rip, orc) ==
    Let(find_syscall_hook(w, tid, rip), LAMBDA found :
      IF ~found.ok THEN [w |-> w, ok |-> FALSE, val |-> Addr(0, 0)]
      ELSE
    Let(w.stub_pages[w.tasks[tid].stub_pages], LAMBDA pages :
    Let({i \in 1..Len(pages) : StubPageReachable(pages[i], rip)}, LAMBDA hits :
    Let(IF hits = {}
        THEN allocate_extended_jumps(w, tid, rip, orc)
        ELSE [w |-> w, ok |-> TRUE,
              val |-> pages[CHOOSE i \in hits : \A j \in hits : i <= j].address],
        LAMBDA alloc :
      IF Panicked(alloc.w) \/ ~alloc.ok
      THEN [w |-> alloc.w, ok |-> FALSE, val |-> Addr(0, 0)]
      ELSE
    Let(extended_jump_offset_from_stub_page(found.hook), LAMBDA offset :
      [w |-> alloc.w, ok |-> TRUE,
       val |-> Addr(alloc.val + (offset \div PAGE_SIZE), offset % PAGE_SIZE)])))))

\* patch_syscall without its skip rule
InVfork_Never(task) == FALSE

\* traced_task.rs:268: the skip rule
InVfork(task) == task.in_vfork

\* patch_syscall without its test of patched_syscalls
AlreadyPatched_Never(w, tid, rip) == FALSE

\* traced_task.rs:279-288
AlreadyPatched(w, tid, rip) ==
    \E i \in DOMAIN w.patched_syscalls[w.tasks[tid].patched_syscalls] :
        w.patched_syscalls[w.tasks[tid].patched_syscalls][i] = rip

\* patch_syscall without its test of unpatchable_syscalls
KnownUnpatchable_Never(w, tid, rip) == FALSE

\* traced_task.rs:289-300
KnownUnpatchable(w, tid, rip) ==
    \E i \in DOMAIN w.unpatchable_syscalls[w.tasks[tid].unpatchable_syscalls] :
        w.unpatchable_syscalls[w.tasks[tid].unpatchable_syscalls][i] = rip

\* traced_task.rs:317-324: what the map_err closure does when patch_at fails
PatchFailed(w, tid, rip, old_regs) ==
    [w EXCEPT !.unpatchable_syscalls[w.tasks[tid].unpatchable_syscalls] =
                  Append(@, rip),
              !.thr[tid].regs =
                  [old_regs EXCEPT !.rip = AddrAdd(old_regs.rip, 0 - 2),
                                   !.rax = old_regs.orig_rax]]

\* a patch that puts its address on both lists
PatchSucceeded_Both(w, tid, rip) ==
    [w EXCEPT !.patched_syscalls[w.tasks[tid].patched_syscalls] = Append(@, rip),
              !.unpatchable_syscalls[w.tasks[tid].unpatchable_syscalls] = Append(@, rip)]

\* a patch that records its address twice
PatchSucceeded_Twice(w, tid, rip) ==
    [w EXCEPT !.patched_syscalls[w.tasks[tid].patched_syscalls] = Append(Append(@, rip), rip)]

\* traced_task.rs:325
PatchSucceeded(w, tid, rip) ==
    [w EXCEPT !.patched_syscalls[w.tasks[tid].patched_syscalls] = Append(@, rip)]

\* traced_task.rs:272-274
LoadHelperAddress(w, tid) ==
    IF w.tasks[tid].ldpreload_address = NONE
    THEN [w EXCEPT !.tasks[tid].ldpreload_address = libsystrace_load_address(w, tid)]
    ELSE w

\* a patch_syscall that looks for the stub page first and skips the pending
\* syscall afterwards
patch_syscall_LateSkip(w, tid, rip, orc) ==
    IF InVfork(w.tasks[tid]) THEN [w |-> w, ok |-> FALSE]
    ELSE
    Let(LoadHelperAddress(w, tid), LAMBDA w1 :
      IF w1.tasks[tid].ldpreload_address = NONE THEN [w |-> w1, ok |-> FALSE]
      ELSE IF AlreadyPatched(w1, tid, rip) THEN [w |-> w1, ok |-> TRUE]
      ELSE IF KnownUnpatchable(w1, tid, rip) THEN [w |-> w1, ok |-> FALSE]
      ELSE
    Let(find_syscall_hook(w1, tid, rip), LAMBDA found :
      IF ~found.ok THEN [w |-> w1, ok |-> FALSE]
      ELSE
    Let(w1.thr[tid].regs, LAMBDA old_regs :
    Let(extended_jump_from_to(w1, tid, rip, orc), LAMBDA jump :
      IF Panicked(jump.w) \/ ~jump.ok THEN [w |-> jump.w, ok |-> FALSE]
      ELSE
    Let(skip_seccomp_syscall(jump.w, tid, old_regs, orc.step), LAMBDA w2 :
      IF Panicked(w2) THEN [w |-> w2, ok |-> FALSE]
      ELSE
    Let(patch_at(w2, tid, found.hook, jump.val, orc), LAMBDA patched :
      IF Panicked(patched.w) THEN [w |-> patched.w, ok |-> FALSE]
      ELSE IF ~patched.ok
      THEN [w |-> PatchFailed(patched.w, tid, rip, old_regs), ok |-> FALSE]
      ELSE [w |-> PatchSucceeded(patched.w, tid, rip), ok |-> TRUE]))))))

\* traced_task.rs:264-327.  orc gives what the tracee and the kernel answer
\* to the single step and to each injected syscall.  Returns the world after
\* the call and whether it returned Ok.
patch_syscall(w, tid, rip, orc) ==
    IF InVfork(w.tasks[tid]) THEN [w |-> w, ok |-> FALSE]
    ELSE
    Let(LoadHelperAddress(w, tid), LAMBDA w1 :
      IF w1.tasks[tid].ldpreload_address = NONE THEN [w |-> w1, ok |-> FALSE]
      ELSE IF AlreadyPatched(w1, tid, rip) THEN [w |-> w1, ok |-> TRUE]
      ELSE IF KnownUnpatchable(w1, tid, rip) THEN [w |-> w1, ok |-> FALSE]
      ELSE
    Let(find_syscall_hook(w1, tid, rip), LAMBDA found :
      IF ~found.ok THEN [w |-> w1, ok |-> FALSE]
      ELSE
    Let(w1.thr[tid].regs, LAMBDA old_regs :
    Let(skip_seccomp_syscall(w1, tid, old_regs, orc.step), LAMBDA w2 :
      IF Panicked(w2) THEN [w |-> w2, ok |-> FALSE]
      ELSE
    Let(extended_jump_from_to(w2, tid, rip, orc), LAMBDA jump :
      IF Panicked(jump.w) \/ ~jump.ok THEN [w |-> jump.w, ok |-> FALSE]
      ELSE
    Let(patch_at(jump.w, tid, found.hook, jump.val, orc), LAMBDA patched :
      IF Panicked(patched.w) THEN [w |-> patched.w, ok |-> FALSE]
      ELSE IF ~patched.ok
      THEN [w |-> PatchFailed(patched.w, tid, rip, old_regs), ok |-> FALSE]
      ELSE [w |-> PatchSucceeded(patched.w, tid, rip), ok |-> TRUE]))))))

----------------------------------------------------------------------------
(* Tasks *)

Ready == [k |-> "Ready", ev |-> "NONE", code |-> 0]
Event(ev) == [k |-> "Event", ev |-> ev, code |-> 0]
Stopped(sig) == [k |-> "Stopped", ev |-> sig, code |-> 0]
Exited(code) == [k |-> "Exited", ev |-> "NONE", code |-> code]

\* traced_task.rs:90-107: every collection is a new, empty Rc (handle pid)
TaskNew(w, pid) ==
    [ tid |-> pid, pid |-> pid, ppid |-> pid,
      state |-> Ready,
      in_vfork |-> FALSE,
      memory_map |-> pid,
      stub_pages |-> pid,
      ldpreload_address |-> libsystrace_load_address(w, pid),
      injected_mmap_page |-> NONE,
      signal_to_deliver |-> "None",
      unpatchable_syscalls |-> pid,
      patched_syscalls |-> pid ]

\* traced_task.rs:109-128: the Rc handles are cloned, the collections shared
cloned(w, tid, child) ==
    LET self == w.tasks[tid]
    IN  [ tid |-> child, pid |-> self.pid, ppid |-> self.pid,
          state |-> Ready,
          in_vfork |-> FALSE,
          memory_map |-> self.memory_map,
          stub_pages |-> self.stub_pages,
          ldpreload_address |-> self.ldpreload_address,
          injected_mmap_page |-> self.injected_mmap_page,
          signal_to_deliver |-> "None",
          unpatchable_syscalls |-> self.unpatchable_syscalls,
          patched_syscalls |-> self.patched_syscalls ]

\* a fork whose new task holds its parent's cell of patched_syscalls
forked_Shared(w, tid, child) ==
    LET self == w.tasks[tid]
    IN  [ tid |-> child, pid |-> child, ppid |-> self.pid,
          state |-> Ready,
          in_vfork |-> FALSE,
          memory_map |-> child,
          stub_pages |-> child,
          ldpreload_address |-> libsystrace_load_address(w, self.pid),
          injected_mmap_page |-> PRIVATE_PAGE,
          signal_to_deliver |-> "None",
          unpatchable_syscalls |-> child,
          patched_syscalls |-> self.patched_syscalls ]

\* traced_task.rs:130-161: every collection is a new Rc (handle child) that
\* holds a copy of the parent's
forked(w, tid, child) ==
    LET self == w.tasks[tid]
    IN  [ tid |-> child, pid |-> child, ppid |-> self.pid,
          state |-> Ready,
          in_vfork |-> FALSE,
          memory_map |-> child,
          stub_pages |-> child,
          ldpreload_address |-> libsystrace_load_address(w, self.pid),
          injected_mmap_page |-> PRIVATE_PAGE,
          signal_to_deliver |-> "None",
          unpatchable_syscalls |-> child,
          patched_syscalls |-> child ]

\* the contents the new Rc of a forked task are created with
ForkedHeaps(w, tid, child) ==
    LET self == w.tasks[tid]
    IN  [w EXCEPT
          !.memory_map = (child :> w.memory_map[self.memory_map]) @@ @,
          !.stub_pages = (child :> w.stub_pages[self.stub_pages]) @@ @,
          !.unpatchable_syscalls =
              (child :> w.unpatchable_syscalls[self.unpatchable_syscalls]) @@ @,
          !.patched_syscalls =
              (child :> w.patched_syscalls[self.patched_syscalls]) @@ @]

\* traced_task.rs:208-220 (the debug assertions on the strong counts are
\* compiled out of a release build and are not part of this operator)
task_reset(w, tid) ==
    LET task == w.tasks[tid]
    IN  [w EXCEPT
          !.tasks[tid].ldpreload_address = NONE,
          !.tasks[tid].injected_mmap_page = PRIVATE_PAGE,
          !.tasks[tid].signal_to_deliver = "None",
          !.tasks[tid].state = Exited(0),
          !.tasks[tid].in_vfork = FALSE,
          !.unpatchable_syscalls[task.unpatchable_syscalls] = <<>>,
          !.memory_map[task.memory_map] = <<>>,
          !.stub_pages[task.stub_pages] = <<>>]

----------------------------------------------------------------------------
(* The kernel side of continue, and the handlers of the ptrace events *)

Nowhere == Addr(0, 0)
EntryAddr == Addr(TextPage, 64)
RunRegs == [rip |-> Nowhere, rax |-> 0, orig_rax |-> 0]

IsSyscallInsn(w, tid, s) == Prefix(AS(w, tid).text[s], 2) = <<15, 5>>

\* ptrace::cont of a stopped tracee.  At a seccomp stop whose syscall is
\* still pending the kernel runs the syscall.  When the syscall was skipped
\* the tracee goes on from rip: rewound to a patched site it runs the call
\* to the hook, rewound to a site that still holds the syscall instruction it
\* is about to run that instruction again, left behind the site the syscall
\* is lost.
KernelCont(w, tid) ==
    Let(w.thr[tid], LAMBDA th :
    Let([th EXCEPT !.st = "run", !.ev = "NONE", !.payload = 0,
                   !.insys = FALSE, !.regs = RunRegs],
        LAMBDA go :
      IF th.ev = "VFORK"
      THEN [w EXCEPT !.thr[tid].st = "blocked"]
      ELSE IF th.ev = "SECCOMP" /\ th.insys
      THEN [w EXCEPT !.thr[tid] = go]
      ELSE IF th.regs.rip \in Sites
      THEN IF IsSyscallInsn(w, tid, th.regs.rip)
           THEN [w EXCEPT !.thr[tid] = [go EXCEPT !.regs.rip = th.regs.rip]]
           ELSE [w EXCEPT !.thr[tid] = go]
      ELSE IF th.ev = "SECCOMP"
      THEN [w EXCEPT !.thr[tid] = [go EXCEPT !.lost = TRUE]]
      ELSE [w EXCEPT !.thr[tid] = go]))

\* traced_task.rs:494-497 (resume) and 696-698 with the expect of its
\* callers: a failed ptrace::cont panics
resume(w, tid) ==
    IF w.thr[tid].st # "stop" THEN Panic(w) ELSE KernelCont(w, tid)

\* the three words with the operand of the first call in the second call too
syscall_stub_SameCall ==
    << <<1295, 37059, 1295, 37059>>,
       <<62440, 65535, 52479, 36966>>,
       <<62440, 65535, 52479, 36966>> >>

\* remote.rs:366: the three u64 words 0x90c3050f90c3050f, 0x9066ccfffffff3e8
\* and 0x9066ccffffffefe8, each as its 16-bit words 0x050f 0x90c3 0x050f
\* 0x90c3, 0xf3e8 0xffff 0xccff 0x9066 and 0xefe8 0xffff 0xccff 0x9066
syscall_stub ==
    << <<1295, 37059, 1295, 37059>>,
       <<62440, 65535, 52479, 36966>>,
       <<61416, 65535, 52479, 36966>> >>

\* ptrace::write of one word: its 8 bytes in memory, least significant first
PokeWord(word) == [j \in 1..8 |-> ShrByte(word, j - 1)]

RECURSIVE PokeWords(_, _)
\* remote.rs:371-374: word k goes to page_address + 8 * k
PokeWords(words, k) ==
    IF k > Len(words) THEN <<>>
    ELSE PokeWord(words[k]) \o PokeWords(words, k + 1)

\* remote.rs:351-376
gen_syscall_sequences_at(w, tid, page_address) ==
    [w EXCEPT !.mem[w.thr[tid].as].priv = PokeWords(syscall_stub, 1)]

\* traced_task.rs:700-740.  oc is the outcome of the mmap the tracee runs
\* at the breakpoint: "ok", "err" (rax in the error range) or "other" (the
\* wait does not report the SIGTRAP).  Returns the world and Ok or Err.
tracee_preinit(w, tid, oc) ==
    IF oc = "other" THEN [w |-> Panic(w), ok |-> FALSE]
    ELSE IF oc = "err" THEN [w |-> w, ok |-> FALSE]
    ELSE
    Let(w.thr[tid].regs, LAMBDA saved_regs :
    Let(PRIVATE_PAGE..(PRIVATE_PAGE + PRIVATE_PAGE_PAGES - 1), LAMBDA range :
    Let([w EXCEPT !.mem[w.thr[tid].as].pages =
            [p \in DOMAIN @ \cup range |-> IF p \in range THEN "rwx" ELSE @[p]]],
        LAMBDA mapped :
    Let(gen_syscall_sequences_at(mapped, tid, PRIVATE_PAGE), LAMBDA written :
      [w |-> [written EXCEPT !.thr[tid].regs =
                 [saved_regs EXCEPT !.rip = AddrAdd(saved_regs.rip, 0 - 1)]],
       ok |-> TRUE]))))

\* do_ptrace_exec without the write of the saved entry bytes after tracee_preinit.
do_ptrace_exec_NoRestore(w, tid, orc) ==
    Let([w EXCEPT !.mem[w.thr[tid].as].entry = <<204, 15, 5, 204>> \o SubSeq(@, 5, 8),
                  !.thr[tid].regs.rip = AddrAdd(@, 1)],
        LAMBDA armed :
      IF orc.bp # "trap" THEN [w |-> Panic(armed), ret |-> Panic(armed), ok |-> FALSE]
      ELSE
    Let(tracee_preinit(armed, tid, orc.mmap), LAMBDA pre :
      IF Panicked(pre.w) \/ ~pre.ok THEN [w |-> pre.w, ret |-> pre.w, ok |-> FALSE]
      ELSE
      [w |-> resume(task_reset(pre.w, tid), tid),
       ret |-> task_reset(pre.w, tid), ok |-> TRUE]))

\* traced_task.rs:742-764.  orc.bp is what the wait after the first continue
\* reports, orc.mmap the outcome of the mmap of tracee_preinit.
do_ptrace_exec(w, tid, orc) ==
    Let(w.mem[w.thr[tid].as].entry, LAMBDA saved :
    \* (saved & !0xffffffff) | 0xcc050fcc, and the stop at the first int3
    Let([w EXCEPT !.mem[w.thr[tid].as].entry = <<204, 15, 5, 204>> \o SubSeq(saved, 5, 8),
                  !.thr[tid].regs.rip = AddrAdd(@, 1)],
        LAMBDA armed :
      IF orc.bp # "trap" THEN [w |-> Panic(armed), ret |-> Panic(armed), ok |-> FALSE]
      ELSE
    Let(tracee_preinit(armed, tid, orc.mmap), LAMBDA pre :
      IF Panicked(pre.w) \/ ~pre.ok THEN [w |-> pre.w, ret |-> pre.w, ok |-> FALSE]
      ELSE
    Let([pre.w EXCEPT !.mem[w.thr[tid].as].entry = saved], LAMBDA restored :
      \* ret is the tracee as the handler leaves it, w after the final PTRACE_CONT
      [w |-> resume(task_reset(restored, tid), tid),
       ret |-> task_reset(restored, tid), ok |-> TRUE]))))

----------------------------------------------------------------------------
(* State *)

VARIABLES
    tasks,                 \* tid -> TracedTask, the tasks the tracer holds
    memory_map,            \* the Rc<RefCell<Vec<..>>> cells, by handle
    stub_pages,
    unpatchable_syscalls,
    patched_syscalls,
    sched,                 \* tids whose wait status is translated, to be run
    thr,                   \* tid -> the kernel's thread (registers, stop)
    mem,                   \* address space -> pages, code bytes, private page
    tracer,                \* "running" or "panicked"
    eff,                   \* what the handler that just ran did to the tracee
    last,                  \* the handler that just ran: task, result, world before
    events,                \* number of events so far
    calc,                  \* a function of the tracer called on its own: the
                           \* call and what it returned
    boot                   \* the start of the tracer and of the root tracee
                           \* (strace.rs): where each stands, what is set up

vars == <<tasks, memory_map, stub_pages, unpatchable_syscalls, patched_syscalls,
          sched, thr, mem, tracer, eff, last, events, calc, boot>>

World ==
    [ tasks |-> tasks, memory_map |-> memory_map, stub_pages |-> stub_pages,
      unpatchable_syscalls |-> unpatchable_syscalls,
      patched_syscalls |-> patched_syscalls, sched |-> sched,
      thr |-> thr, mem |-> mem, tracer |-> tracer, eff |-> eff ]

NoEffect ==
    [injected |-> FALSE, poked |-> FALSE, skipped |-> FALSE, calls |-> <<>>, sig |-> "None"]

\* the handler gives sig to the PTRACE_CONT or PTRACE_SINGLESTEP that sets the
\* tracee going: the kernel delivers it to the tracee
Passed(w, sig) == [w EXCEPT !.eff.sig = sig]

\* the world at the start of a handler
Entering == [World EXCEPT !.eff = NoEffect]

Becomes(w) ==
    /\ tasks' = w.tasks
    /\ memory_map' = w.memory_map
    /\ stub_pages' = w.stub_pages
    /\ unpatchable_syscalls' = w.unpatchable_syscalls
    /\ patched_syscalls' = w.patched_syscalls
    /\ sched' = w.sched
    /\ thr' = w.thr
    /\ mem' = w.mem
    /\ tracer' = w.tracer
    /\ eff' = w.eff

Is(w) ==
    /\ tasks = w.tasks
    /\ memory_map = w.memory_map
    /\ stub_pages = w.stub_pages
    /\ unpatchable_syscalls = w.unpatchable_syscalls
    /\ patched_syscalls = w.patched_syscalls
    /\ sched = w.sched
    /\ thr = w.thr
    /\ mem = w.mem
    /\ tracer = w.tracer
    /\ eff = w.eff

\* strace.rs:243-253: the tracees are traced with PTRACE_O_EXITKILL, a panic of
\* the tracer ends them all
Aborted ==
    [ tasks |-> <<>>, memory_map |-> <<>>, stub_pages |-> <<>>,
      unpatchable_syscalls |-> <<>>, patched_syscalls |-> <<>>, sched |-> {},
      thr |-> <<>>, mem |-> <<>>, tracer |-> "panicked", eff |-> NoEffect ]

Settled(w) == IF w.tracer = "panicked" THEN Aborted ELSE w

\* a handler ran on the task tid: pre is the world it found, ret the world
\* when its work was done and before it continued the tracee, post the world
\* it left
\* how many of the waits that a handler made did not end as it expected
Faults(orc) ==
    Cardinality({f \in DOMAIN orc : orc[f] \notin {"ok", "trap", "exited", "signaled"}})

\* a handler that waits for nothing
Quiet == <<>>

\* no function has been called on its own
NoCall == [f |-> "none"]

Handled(op, tid, rip, ok, pre, ret, post, orc) ==
    /\ events + Faults(orc) <= MaxEvents
    /\ \E w \in {post} : Becomes(Settled(w))
    /\ last' = [op |-> op, tid |-> tid, rip |-> rip, ok |-> ok,
                pre |-> pre, ret |-> ret, orc |-> orc]
    /\ events' = events + Faults(orc)
    /\ UNCHANGED <<calc, boot>>

RootTid == 1

\* strace.rs:236-262: the root tracee stopped itself with SIGSTOP, the tracer
\* set the ptrace options, continued it and made its task with Task::new.
\* The tracee runs run_tracee (strace.rs:97-152), which ends in the exec of
\* the program.
BootThread ==
    [ st |-> "run", ev |-> "NONE", payload |-> 0, regs |-> RunRegs,
      as |-> RootTid, tgid |-> RootTid, insys |-> FALSE, lost |-> FALSE ]

BootImage ==
    [ExecImage EXCEPT !.image = "run_tracee",
                      !.text = [s \in Sites |-> Zeros(18)]]

BootWorld ==
    LET bare == [ tasks |-> <<>>, memory_map |-> <<>>, stub_pages |-> <<>>,
                  unpatchable_syscalls |-> <<>>, patched_syscalls |-> <<>>,
                  sched |-> {},
                  thr |-> (RootTid :> BootThread),
                  mem |-> (RootTid :> BootImage),
                  tracer |-> "running", eff |-> NoEffect ]
    IN  [bare EXCEPT !.tasks = (RootTid :> TaskNew(bare, RootTid)),
                     !.memory_map = (RootTid :> <<>>),
                     !.stub_pages = (RootTid :> <<>>),
                     !.unpatchable_syscalls = (RootTid :> <<>>),
                     !.patched_syscalls = (RootTid :> <<>>)]

\* reverie-common/src/consts.rs:27
REVERIE_GLOBAL_STATE_FD == 1023

\* strace.rs:243-252: the options run_tracer sets on the root tracee
PtraceOptions ==
    {"TRACEEXEC", "EXITKILL", "TRACECLONE", "TRACEFORK", "TRACEVFORK",
     "TRACEVFORKDONE", "TRACEEXIT", "TRACESECCOMP", "TRACESYSGOOD"}

\* strace.rs:236-262 has run: the memfd is at its descriptor in the tracer and
\* in the root tracee, the tracee has stopped itself with SIGSTOP, has its
\* options and has been continued, and the tracer is in run_all
Booted ==
    [ argv |-> <<FALSE, 0, 0>>, tracer |-> "run_all", child |-> "init_signals",
      fds |-> {0, 1, 2, REVERIE_GLOBAL_STATE_FD},
      child_fds |-> {0, 1, 2, REVERIE_GLOBAL_STATE_FD},
      traced |-> TRUE, options |-> PtraceOptions, filter |-> FALSE,
      stop |-> "none", envp |-> 0, seen |-> <<"SIGSTOP">> ]

\* no handler has just run
Idle == [op |-> "none", tid |-> RootTid, rip |-> Nowhere, ok |-> TRUE,
         pre |-> BootWorld, ret |-> BootWorld, orc |-> Quiet]

\* a step of a tracee that stops it
Stops(w) ==
    /\ events < MaxEvents
    /\ \E v \in {w} : Becomes([v EXCEPT !.eff = NoEffect])
    /\ last' = Idle
    /\ events' = events + 1
    /\ UNCHANGED <<calc, boot>>

\* a step of a tracee that does not stop it
Moves(w) ==
    /\ \E v \in {w} : Becomes([v EXCEPT !.eff = NoEffect])
    /\ last' = Idle
    /\ UNCHANGED <<events, calc, boot>>

Init ==
    /\ Is(BootWorld)
    /\ last = Idle
    /\ events = 0
    /\ calc = NoCall
    /\ boot = Booted

----------------------------------------------------------------------------
(* The tracee and the kernel: the stops the wait loop reports.  The wait     *)
(* loop translates the status into the state of the task and queues it.     *)

Live(t) == t \in DOMAIN thr /\ t \in DOMAIN tasks /\ tracer = "running"
Runs(t) == Live(t) /\ thr[t].st = "run"
InProgram(t) == mem[thr[t].as].image = "program"

\* the task of tid is reported stopped with the event ev
StopAt(w, tid, ev, payload, regs, state) ==
    [w EXCEPT !.thr[tid].st = "stop", !.thr[tid].ev = ev,
              !.thr[tid].payload = payload, !.thr[tid].regs = regs,
              !.thr[tid].lost = FALSE,
              !.tasks[tid].state = state,
              !.sched = @ \cup {tid}]

\* the parent of a vfork is woken when the child tid execs or exits
VforkRelease(w, tid) ==
    LET ps == {p \in DOMAIN w.thr : w.thr[p].st = "blocked" /\ w.thr[p].payload = tid}
    IN  IF ps = {} THEN w
        ELSE LET p == CHOOSE q \in ps : TRUE
             IN  IF p \in DOMAIN w.tasks
                 THEN StopAt(w, p, "VFORK_DONE", tid, RunRegs, Event("VFORK_DONE"))
                 ELSE [w EXCEPT !.thr[p].st = "run"]

\* the tracee runs the syscall instruction at the site s: seccomp stop, rip
\* behind the instruction, rax = -ENOSYS, the syscall number in orig_rax
TraceeSyscall(t, s) ==
    /\ Runs(t) /\ InProgram(t)
    /\ thr[t].regs.rip \in {Nowhere, s}
    /\ IsSyscallInsn(World, t, s)
    /\ Stops([StopAt(World, t, "SECCOMP", 0,
                       [rip |-> AddrAdd(s, SYSCALL_INSN_SIZE),
                        rax |-> 0 - Linux.ENOSYS, orig_rax |-> Linux.SYS_getpid],
                       Event("SECCOMP"))
                  EXCEPT !.thr[t].insys = TRUE])

\* the helper library is loaded in the tracee and fills its slot
HelperLoaded(t) ==
    /\ Runs(t) /\ InProgram(t)
    /\ thr[t].regs.rip = Nowhere
    /\ Mapped(World, t, LOCAL_BASE_PAGE)
    /\ mem[thr[t].as].tramp = 0
    /\ Moves([World EXCEPT
                  !.mem[thr[t].as].tramp = TrampolineValue,
                  !.mem[thr[t].as].pages = (HelperBase \div PAGE_SIZE :> "r-x") @@ @])

\* fork, vfork or clone: the parent stops with the event, the child exists
\* (stopped) with the next tid
TraceeFork(t, kind) ==
    LET c == Cardinality(DOMAIN thr) + 1
        child == [ st |-> "stop", ev |-> "SIGSTOP", payload |-> 0, regs |-> RunRegs,
                   as |-> IF kind = "FORK" THEN c ELSE thr[t].as,
                   tgid |-> IF kind = "CLONE" THEN thr[t].tgid ELSE c,
                   insys |-> FALSE, lost |-> FALSE ]
        born == [World EXCEPT !.thr = (c :> child) @@ @,
                              !.mem = IF kind = "FORK"
                                      THEN (c :> mem[thr[t].as]) @@ @ ELSE @]
    IN  /\ Runs(t) /\ InProgram(t)
        /\ thr[t].regs.rip = Nowhere
        /\ c <= MaxTasks
        /\ Stops(StopAt(born, t, kind, c, RunRegs, Event(kind)))

\* the values the seccomp filter may attach to a trap; 0x7fff marks a
\* syscall the filter does not know (traced_task.rs:681)
UNFILTERED == 32767

\* exec by the leader of a thread group: the other threads of the group are
\* gone, the address space is the one of the new image, stop at its entry
KernelExec(w, t) ==
    LET others == {u \in DOMAIN w.thr : u # t /\ w.thr[u].tgid = t}
        sharers == {u \in DOMAIN w.thr : u # t /\ w.thr[u].tgid # t
                                          /\ w.thr[u].st # "dead"
                                          /\ w.thr[u].as = w.thr[t].as}
        a == IF sharers = {} THEN w.thr[t].as ELSE t
        killed == [w EXCEPT
                     !.thr = [u \in DOMAIN w.thr |->
                                 IF u \in others
                                 THEN [w.thr[u] EXCEPT !.st = "dead", !.regs = RunRegs,
                                                       !.ev = "NONE", !.payload = 0,
                                                       !.insys = FALSE]
                                 ELSE IF u = t THEN [w.thr[u] EXCEPT !.as = a]
                                 ELSE w.thr[u]],
                     !.sched = @ \ others,
                     !.mem = (a :> ExecImage) @@ @]
        stopped == StopAt(killed, t, "EXEC", 0,
                          [RunRegs EXCEPT !.rip = EntryAddr], Event("EXEC"))
    IN  VforkRelease(stopped, t)

TraceeExec(t) ==
    /\ Runs(t)
    /\ thr[t].tgid = t
    /\ Stops(KernelExec(World, t))

\* exit(code) of the tracee: the kernel stops it in do_exit with the event
\* EXIT, whose message is the exit status of the tracee, (code & 0xff) << 8
TraceeExit(t, code) ==
    /\ Runs(t) /\ InProgram(t)
    /\ Stops(StopAt(World, t, "EXIT", (code % 256) * 256, RunRegs, Event("EXIT")))

\* a signal stops the tracee wherever it is
TraceeSignal(t) ==
    /\ Runs(t) /\ InProgram(t)
    /\ Stops(StopAt(World, t, "SIGNAL", 0, thr[t].regs, Stopped("SIGUSR1")))

----------------------------------------------------------------------------
(* The tracer: the scheduler pops a queued task and calls run *)

Queued(t) == Live(t) /\ t \in sched

Popped(t) == [Entering EXCEPT !.sched = @ \ {t}]

\* the task is dropped: an Rc cell lives as long as a task holds its handle
DropTask(w, tid) ==
    LET rest == [u \in DOMAIN w.tasks \ {tid} |-> w.tasks[u]]
        Held(h, f) == \E u \in DOMAIN rest : rest[u][f] = h
        Keep(heap, f) == [h \in {x \in DOMAIN heap : Held(x, f)} |-> heap[h]]
    IN  [w EXCEPT !.tasks = rest,
                  !.sched = @ \ {tid},
                  !.memory_map = Keep(@, "memory_map"),
                  !.stub_pages = Keep(@, "stub_pages"),
                  !.unpatchable_syscalls = Keep(@, "unpatchable_syscalls"),
                  !.patched_syscalls = Keep(@, "patched_syscalls")]

\* run returned Err: the task is killed and the loop goes on with the others
TaskFatal(w, tid) ==
    VforkRelease(DropTask([w EXCEPT !.thr[tid].st = "dead", !.thr[tid].regs = RunRegs,
                                    !.thr[tid].ev = "NONE", !.thr[tid].payload = 0,
                                    !.thr[tid].insys = FALSE], tid), tid)

\* run returned Forked(parent, child): the parent is continued and the child
\* is queued
SchedForked(w, parent, child) ==
    Let(resume(w, parent), LAMBDA w1 :
      IF Panicked(w1) THEN w1 ELSE [w1 EXCEPT !.sched = @ \cup {child}])

\* traced_task.rs:194-201: run of a Ready or Stopped task
RunResume(t) ==
    /\ Queued(t)
    /\ tasks[t].state.k \in {"Ready", "Stopped"}
    /\ LET post == resume(Passed(Popped(t), IF tasks[t].state.k = "Stopped"
                                             THEN tasks[t].state.ev ELSE "None"), t)
       IN  Handled("resume", t, Nowhere, TRUE, Entering, post, post, Quiet)

\* what the wait after an injected syscall may report, and after a step
Outcome == {"ok", "err", "sigchld", "other"}
StepOutcome == {"trap", "other"}

\* the outcomes of the step, of the four injected syscalls and of the word
\* copy of one patch;
\* behind an outcome that ends the handler the later ones are never asked
\* for, and stand as "ok"
PatchOracle ==
    LET Ends(o) == o \in {"err", "other"}
        all == [step : StepOutcome, mmap : Outcome, mprot_stub : Outcome,
                mprot_w : Outcome, poke : PokeOutcome, mprot_rx : Outcome]
        Asked(o) ==
            /\ (o.step # "trap" \/ o.mmap # "ok") =>
                   o.mprot_stub = "ok" /\ o.mprot_w = "ok" /\ o.poke = "ok"
                       /\ o.mprot_rx = "ok"
            /\ o.step # "trap" => o.mmap = "ok"
            /\ Ends(o.mprot_stub) => o.mprot_w = "ok" /\ o.poke = "ok" /\ o.mprot_rx = "ok"
            /\ Ends(o.mprot_w) => o.poke = "ok" /\ o.mprot_rx = "ok"
            /\ o.poke = "crash" => o.mprot_rx = "ok"
    IN  {o \in all : Asked(o)}

ExecOracle == [bp : StepOutcome, mmap : {"ok", "err", "other"}]

\* how many of the outcomes of an oracle are not what the tracer expects
AtEvent(t, ev) == Queued(t) /\ tasks[t].state = Event(ev)

\* traced_task.rs:651-654 and 603-605
do_ptrace_fork(w, tid) ==
    Let(w.thr[tid].payload, LAMBDA child :
      [ForkedHeaps(w, tid, child) EXCEPT
          !.tasks = (child :> forked(w, tid, child)) @@ @])

\* a VFORK handler that creates the task a FORK creates, flag and all
do_ptrace_vfork_Plain(w, tid) == do_ptrace_fork(w, tid)

\* traced_task.rs:656-660
do_ptrace_vfork(w, tid) ==
    Let(w.thr[tid].payload, LAMBDA child :
      [ForkedHeaps(w, tid, child) EXCEPT
          !.tasks = (child :> [forked(w, tid, child) EXCEPT !.in_vfork = TRUE]) @@ @])

\* a clone handler whose new task gets cells of its own
do_ptrace_clone_Copies(w, tid) ==
    LET child == w.thr[tid].payload
    IN  [ForkedHeaps(w, tid, child) EXCEPT
            !.tasks = (child :> [cloned(w, tid, child) EXCEPT
                                    !.memory_map = child, !.stub_pages = child,
                                    !.unpatchable_syscalls = child,
                                    !.patched_syscalls = child]) @@ @]

\* traced_task.rs:646-649
do_ptrace_clone(w, tid) ==
    LET child == w.thr[tid].payload
    IN  [w EXCEPT !.tasks = (child :> cloned(w, tid, child)) @@ @]

\* traced_task.rs:641-644
do_ptrace_vfork_done(w, tid) == resume(Passed(w, w.tasks[tid].signal_to_deliver), tid)

\* traced_task.rs:662-675.  oc is the status the wait after the step reports.
\* retval is the message of the event (getevent); val is the RunTask::Exited
\* the handler returns, w the world without the task.
do_ptrace_event_exit(w, tid, oc) ==
    IF w.thr[tid].st # "stop" \/ oc = "other" THEN [w |-> Panic(w), val |-> Exited(0)]
    ELSE
    Let(w.thr[tid].payload, LAMBDA retval :
      [w |-> VforkRelease(DropTask([Passed(w, w.tasks[tid].signal_to_deliver)
                                       EXCEPT !.thr[tid].st = "dead", !.thr[tid].ev = "NONE",
                                              !.thr[tid].payload = 0], tid), tid),
       val |-> IF oc = "exited" THEN Exited(retval) ELSE Exited(128 + Linux.SIGKILL)])

\* traced_task.rs:677-690: patch, then continue whatever the result
do_ptrace_seccomp(w, tid, orc) ==
    IF w.thr[tid].payload = UNFILTERED THEN [w |-> Panic(w), ok |-> FALSE, ret |-> w]
    ELSE
    Let(patch_syscall(w, tid, w.thr[tid].regs.rip, orc), LAMBDA r :
      IF Panicked(r.w) THEN [w |-> r.w, ok |-> r.ok, ret |-> r.w]
      ELSE [w |-> resume(r.w, tid), ok |-> r.ok, ret |-> r.w])

DoPtraceFork(t) ==
    /\ AtEvent(t, "FORK")
    /\ LET post == SchedForked(do_ptrace_fork(Popped(t), t), t, thr[t].payload)
       IN  Handled("FORK", t, Nowhere, TRUE, Entering, post, post, Quiet)

DoPtraceVfork(t) ==
    /\ AtEvent(t, "VFORK")
    /\ LET post == SchedForked(do_ptrace_vfork(Popped(t), t), t, thr[t].payload)
       IN  Handled("VFORK", t, Nowhere, TRUE, Entering, post, post, Quiet)

DoPtraceClone(t) ==
    /\ AtEvent(t, "CLONE")
    /\ LET post == SchedForked(do_ptrace_clone(Popped(t), t), t, thr[t].payload)
       IN  Handled("CLONE", t, Nowhere, TRUE, Entering, post, post, Quiet)

DoPtraceExec(t) ==
    /\ AtEvent(t, "EXEC")
    /\ \E orc \in ExecOracle :
         /\ events + Faults(orc) <= MaxEvents
         /\ \E r \in {do_ptrace_exec(Popped(t), t, orc)} :
              Handled("EXEC", t, Nowhere, r.ok, Entering, r.ret,
                      IF Panicked(r.w) \/ r.ok THEN r.w ELSE TaskFatal(r.w, t),
                      orc)

DoPtraceVforkDone(t) ==
    /\ AtEvent(t, "VFORK_DONE")
    /\ LET post == do_ptrace_vfork_done(Popped(t), t)
       IN  Handled("VFORK_DONE", t, Nowhere, TRUE, Entering, post, post, Quiet)

DoPtraceEventExit(t) ==
    /\ AtEvent(t, "EXIT")
    /\ \E oc \in {"exited", "signaled", "other"} :
         \E r \in {do_ptrace_event_exit(Popped(t), t, oc)} :
              \* the task as the handler returns it: its state is the outcome
              Handled("EXIT", t, Nowhere, TRUE, Entering,
                      [Entering EXCEPT !.tasks[t].state = r.val, !.eff = r.w.eff], r.w, [wait |-> oc])

DoPtraceSeccomp(t) ==
    /\ AtEvent(t, "SECCOMP")
    /\ \E orc \in PatchOracle :
         /\ events + Faults(orc) <= MaxEvents
         /\ \E r \in {do_ptrace_seccomp(Popped(t), t, orc)} :
              Handled("SECCOMP", t, thr[t].regs.rip, r.ok, Entering, r.ret, r.w, orc)

\* the wait loop reaps a thread that an exec of its leader ended
ReapDead(t) ==
    /\ Live(t) /\ thr[t].st = "dead"
    /\ Moves(DropTask(World, t))

Tids == 1..MaxTasks

Next ==
    \/ \E t \in Tids, s \in Sites : TraceeSyscall(t, s)
    \/ \E t \in Tids : HelperLoaded(t)
    \/ \E t \in Tids, kind \in {"FORK", "VFORK", "CLONE"} : TraceeFork(t, kind)
    \/ \E t \in Tids : TraceeExec(t)
    \/ \E t \in Tids, code \in {0, 1} : TraceeExit(t, code)
    \/ \E t \in Tids : TraceeSignal(t)
    \/ \E t \in Tids : RunResume(t)
    \/ \E t \in Tids : DoPtraceFork(t)
    \/ \E t \in Tids : DoPtraceVfork(t)
    \/ \E t \in Tids : DoPtraceClone(t)
    \/ \E t \in Tids : DoPtraceExec(t)
    \/ \E t \in Tids : DoPtraceVforkDone(t)
    \/ \E t \in Tids : DoPtraceEventExit(t)
    \/ \E t \in Tids : DoPtraceSeccomp(t)
    \/ \E t \in Tids : ReapDead(t)

Spec == Init /\ [][Next]_vars

\* The tracer keeps a process's unpatchable addresses in a public field of
\* its task (traced_task.rs:76-79).  SpecSeeded starts where the root has made
\* its first exec, the tracer has handled it, and one address of the program
\* is already on that list.
SeedSites == {AddrAdd(SiteA, SYSCALL_INSN_SIZE)}

SeededWorld(rip) ==
    Let(do_ptrace_exec([KernelExec(BootWorld, RootTid) EXCEPT !.sched = {}, !.eff = NoEffect],
                       RootTid, [bp |-> "trap", mmap |-> "ok"]).w,
        LAMBDA w : [w EXCEPT !.unpatchable_syscalls[w.tasks[RootTid].unpatchable_syscalls] = <<rip>>,
                             !.eff = NoEffect])

InitSeeded ==
    \E rip \in SeedSites :
       /\ Is(SeededWorld(rip))
       /\ last = Idle
       /\ events = 1
       /\ calc = NoCall
       /\ boot = Booted

SpecSeeded == InitSeeded /\ [][Next]_vars

----------------------------------------------------------------------------
(* The functions of the tracer called on their own, each on a set of       *)
(* arguments; calc holds the call and what it returned.  A behaviour makes  *)
(* one call, from the initial state.                                        *)

\* the longest prologue of a hook that is tried
MaxPrologue == 12

\* a hook whose prologue has n bytes
HookOfLen(n) == [offset |-> SYSCALL_HOOKS[1].offset, instructions |-> [i \in 1..n |-> 64 + i]]

\* displacements from a site to a stub slot: pages and bytes
DisplacementPages == {0 - TWO_GB_PAGES, 0 - 1, 0, 1, TWO_GB_PAGES - 1}
DisplacementBytes == {0 - JMP_INSN_SIZE, 123}

\* the call is made and nothing else happens
Returns ==
    UNCHANGED <<tasks, memory_map, stub_pages, unpatchable_syscalls,
                patched_syscalls, sched, thr, mem, tracer, eff, last, events, boot>>

CallPatchBytes(n, d, o) ==
    /\ calc = NoCall
    /\ calc' = [f |-> "patch_bytes", hook |-> HookOfLen(n), rela |-> [d |-> d, o |-> o],
                out |-> patch_bytes(HookOfLen(n), [d |-> d, o |-> o])]
    /\ Returns

\* the most pages that are asked for
MaxPages == 2

\* mapped ranges a tracee may have, as first page and end page: one that a
\* program has mapped low and across 1 MiB, the text and, one page behind it,
\* the data of the program, a library far from both, and a range just below
\* the top
MapRanges ==
    << <<16, 2 * ONE_MB_PAGES>>,
       <<TextPage, TextPage + 2>>,
       <<TextPage + 3, TextPage + 8>>,
       <<FarPage, FarPage + 2>>,
       <<TopPage, TopPage + 1>> >>

\* the ranges of MapRanges with an index in S, in ascending order, as
\* decode_proc_maps gives them
MapOf(S) ==
    LET ix == SortedSeq(S)
    IN  [i \in 1..Len(ix) |-> [base |-> MapRanges[ix[i]][1], end |-> MapRanges[ix[i]][2]]]

\* addresses behind syscall instructions in those ranges: page and offset
Hints ==
    << <<64, 564>>,
       <<SiteA.pg, SiteA.off + SYSCALL_INSN_SIZE>>,
       <<FarPage + 1, 0>>,
       <<SiteTop.pg, SiteTop.off + SYSCALL_INSN_SIZE>> >>

\* the address is in a range of the mappings
InMap(mappings, a) ==
    \E i \in DOMAIN mappings : mappings[i].base <= a.pg /\ a.pg < mappings[i].end

CallSearchStubPage(S, h, n) ==
    /\ calc = NoCall
    /\ InMap(MapOf(S), Addr(Hints[h][1], Hints[h][2]))
    /\ calc' = [f |-> "search_stub_page", mappings |-> MapOf(S),
                addr_hint |-> Addr(Hints[h][1], Hints[h][2]), pages |-> n,
                out |-> search_stub_page(MapOf(S), Addr(Hints[h][1], Hints[h][2]), n)]
    /\ Returns

\* consts.rs:31-68: the slots of the stub data.  The constants
\* REVERIE_LOCAL_<name> are declared in the order of LocalNames; the first is
\* REVERIE_LOCAL_BASE and each other one is the one declared before it plus
\* core::mem::size_of::<u64>().

\* core::mem::size_of::<u64>()
SizeOfU64 == 8

REVERIE_LOCAL_BASE == AddrAdd(Addr(PRIVATE_PAGE, 0), PAGE_SIZE)

LocalNames ==
    << "SYSCALL_HOOK_SIZE", "SYSCALL_HOOK_ADDR", "STUB_SCRATCH",
       "STACK_NESTING_LEVEL", "SYSCALL_TRAMPOLINE", "SYSTOOL_HOOK",
       "SYSCALL_PATCH_LOCK", "SYSTOOL_LOG_LEVEL", "REVERIE_LOCAL_STATE",
       "REVERIE_GLOBAL_STATE", "SYSCALL_HELPER", "RPC_HELPER",
       "DPC_FUTEX", "TLS_GET_ADDR_OFFSET" >>

\* REVERIE_LOCAL_<name> for every name but the first: the slot before it plus 4
REVERIE_LOCAL_Packed(i) == AddrAdd(REVERIE_LOCAL_BASE, 4 * (i - 1))

RECURSIVE REVERIE_LOCAL(_)
\* the value of the i-th constant declared, REVERIE_LOCAL_<LocalNames[i]>
REVERIE_LOCAL(i) ==
    IF i = 1 THEN REVERIE_LOCAL_BASE
    ELSE AddrAdd(REVERIE_LOCAL(i - 1), SizeOfU64)

\* consts.rs:72-85: the assertions of the sanity check, each the name of a
\* constant and the offset from REVERIE_LOCAL_BASE it is compared with
SanityAsserts ==
    << <<"SYSCALL_HOOK_SIZE", 0>>, <<"SYSCALL_HOOK_ADDR", 8>>,
       <<"STUB_SCRATCH", 16>>, <<"STACK_NESTING_LEVEL", 24>>,
       <<"SYSCALL_TRAMPOLINE", 32>>, <<"SYSTOOL_HOOK", 40>>,
       <<"SYSCALL_PATCH_LOCK", 48>>, <<"SYSTOOL_LOG_LEVEL", 56>>,
       <<"REVERIE_LOCAL_STATE", 64>>, <<"REVERIE_GLOBAL_STATE", 72>>,
       <<"SYSCALL_HELPER", 80>>, <<"RPC_HELPER", 88>>,
       <<"DPC_FUTEX", 96>>, <<"TLS_GET_ADDR_OFFSET", 104>> >>

\* consts.rs:70-86
det_tls_sanity_check ==
    \A k \in DOMAIN SanityAsserts :
       \E i \in DOMAIN LocalNames :
          /\ LocalNames[i] = SanityAsserts[k][1]
          /\ REVERIE_LOCAL(i) = AddrAdd(REVERIE_LOCAL_BASE, SanityAsserts[k][2])

\* the constants as they are declared (name, page, offset), and whether the
\* assertions of the sanity check hold of them
CallSanityCheck ==
    /\ calc = NoCall
    /\ calc' = [f |-> "det_tls_sanity_check",
                slots |-> [i \in DOMAIN LocalNames |->
                             <<LocalNames[i], REVERIE_LOCAL(i).pg, REVERIE_LOCAL(i).off>>],
                out |-> det_tls_sanity_check]
    /\ Returns

\* 16-bit words of the targets tried
Words == {0, 255, 256, 4660, 65535}

CallGenExtendedJump(a, b, c, d) ==
    /\ calc = NoCall
    /\ calc' = [f |-> "gen_extended_jump", x |-> <<a, b, c, d>>,
                out |-> gen_extended_jump(<<a, b, c, d>>)]
    /\ Returns

\* the largest catalog of hooks tried
MaxHooks == 32

\* a catalog of n hooks
HooksOf(n) ==
    [k \in 1..n |-> [offset |-> SYSCALL_HOOKS[1].offset + 136 * (k - 1),
                     instructions |-> SYSCALL_HOOKS[1].instructions]]

\* load addresses of the helper library tried
StubAddrs == {0, HelperBase, 7 * HelperBase + 4660}

CallGenExtendedJumpStubs(n, addr) ==
    /\ calc = NoCall
    /\ calc' = [f |-> "gen_extended_jump_stubs", hooks |-> HooksOf(n), addr |-> addr,
                out |-> gen_extended_jump_stubs(HooksOf(n), addr)]
    /\ Returns

\* the world where the root has made its exec, the tracer has handled it and
\* the root has stopped at the seccomp trap of the syscall of site s
StoppedAt(s) ==
    Let(do_ptrace_exec([KernelExec(BootWorld, RootTid) EXCEPT !.sched = {}, !.eff = NoEffect],
                       RootTid, [bp |-> "trap", mmap |-> "ok"]).w,
        LAMBDA w : [w EXCEPT !.thr[RootTid].regs =
                                 [rip |-> AddrAdd(s, SYSCALL_INSN_SIZE),
                                  rax |-> 0 - Linux.ENOSYS, orig_rax |-> Linux.SYS_getpid],
                             !.eff = NoEffect])

\* the syscalls that are injected: number, first page, pages and protection
Injections ==
    << <<SYS_mmap, TextPage + 16, EXTENDED_JUMP_PAGES, "rwx">>,
       <<SYS_mprotect, TextPage, 1, "-w-">>,
       <<SYS_mprotect, TextPage + 16, 1, "-w-">> >>

\* a register set as four numbers
RegsOf(r) == <<r.rip.pg, r.rip.off, r.orig_rax, r.rax>>

\* traced_task.rs:506-530: an injected syscall through the untraced gadget at
\* 0x7000_0008 or the traced one at 0x7000_0010, made at a stop of the root
CallRemoteSyscall(s, gadget, i, oc) ==
    Let(StoppedAt(s), LAMBDA w :
    Let(RemoteDoSyscallAt(w, RootTid, Addr(PRIVATE_PAGE, gadget), Injections[i][1],
                          Injections[i][2], Injections[i][3], Injections[i][4], oc),
        LAMBDA r :
    /\ calc = NoCall
    /\ calc' = [f |-> "remote_do_syscall_at", gadget |-> gadget,
                nr |-> Injections[i][1], pg |-> Injections[i][2], prot |-> Injections[i][4],
                oc |-> oc,
                snapshot |-> RegsOf(w.thr[RootTid].regs),
                returned |-> ~Panicked(r.w),
                ok |-> r.ok,
                val |-> <<r.val.pg, r.val.off>>,
                regs |-> RegsOf(r.w.thr[RootTid].regs),
                signal_to_deliver |-> r.w.tasks[RootTid].signal_to_deliver,
                was |-> IF Mapped(w, RootTid, Injections[i][2])
                        THEN AS(w, RootTid).pages[Injections[i][2]] ELSE "none",
                now |-> IF Mapped(r.w, RootTid, Injections[i][2])
                        THEN AS(r.w, RootTid).pages[Injections[i][2]] ELSE "none"]
    /\ Returns))

\* v as u64, for an i64 v of the model: two's complement, as 16-bit words
AsU64(v) ==
    IF v >= 0 THEN U64(v)
    ELSE <<v % 65536, (v \div 65536) % 65536, 65535, 65535>>

\* the translation that takes 0xffff_ffff_ffff_f000 for an error too
ResultFromRax_Inclusive(rax) ==
    IF rax[4] = 65535 /\ rax[3] = 65535 /\ rax[2] = 65535 /\ rax[1] >= 61440
    THEN [ok |-> FALSE, errno |-> 65536 - rax[1], val |-> rax]
    ELSE [ok |-> TRUE, errno |-> 0, val |-> rax]

\* traced_task.rs:584-588: Err(-(rax as i64) as i32) when rax as u64 >
\* (-4096i64) as u64 = 0xffff_ffff_ffff_f000, else Ok(rax as i64).  The
\* comparison goes from the highest word down; the negation is the two's
\* complement of the low 32 bits, read as an i32.
ResultFromRax(rax) ==
    LET bound == <<61440, 65535, 65535, 65535>>
        above == \E i \in 1..4 : /\ rax[i] > bound[i]
                                 /\ \A j \in (i + 1)..4 : rax[j] = bound[j]
        lo == (65536 - rax[1]) % 65536
        hi == (65535 - rax[2] + (IF rax[1] = 0 THEN 1 ELSE 0)) % 65536
        errno == IF hi >= 32768 THEN (hi - 65536) * 65536 + lo ELSE hi * 65536 + lo
    IN  IF above THEN [ok |-> FALSE, errno |-> errno, val |-> rax]
        ELSE [ok |-> TRUE, errno |-> 0, val |-> rax]

\* values of rax after the gadget, as i64
RaxValues ==
    {0 - 2147483647, 0 - 65536, 0 - 4097, 0 - 4096, 0 - 4095, 0 - 4094,
     0 - Linux.ENOSYS, 0 - Linux.EINVAL, 0 - 1, 0, 1, SYS_mmap, PAGE_SIZE,
     PRIVATE_PAGE * PAGE_SIZE}

CallResultFromRax(v) ==
    /\ calc = NoCall
    /\ calc' = [f |-> "result_from_rax", rax |-> v, out |-> ResultFromRax(AsU64(v))]
    /\ Returns

\* the code at a site: the syscall instruction, then j bytes 65, 66, ... and
\* zeros
CodeOf(j) == <<15, 5>> \o [i \in 1..16 |-> IF i <= j THEN 64 + i ELSE 0]

\* The lookup as patch_syscall makes it for a site of a process with the
\* catalog hooks: find_syscall_hook for the patch (traced_task.rs:298), and
\* again in extended_jump_from_to for the slot (traced_task.rs:358, 381).
CallFindSyscallHook(hooks, code) ==
    /\ calc = NoCall
    /\ calc' = Let(FindSyscallHookIn(hooks, Peeked(code)), LAMBDA found :
                Let(FindSyscallHookIn(hooks, Peeked(code)), LAMBDA hook :
                  [f |-> "find_syscall_hook", hooks |-> hooks, code |-> code,
                   ok |-> found.ok,
                   len |-> IF found.ok
                           THEN SYSCALL_INSN_SIZE + Len(found.hook.instructions) ELSE 0,
                   slot |-> IF hook.ok
                            THEN HookIndexIn(hooks, hook.hook) * EXTENDED_JUMP_SIZE
                            ELSE 0]))
    /\ Returns

\* where the one stub page of the process lies, in pages from the page of
\* rip: 2 GiB below it and the pages next to that, next to rip on either
\* side, and 2 GiB above it; NONE for a process with no stub page
StubPlaces ==
    {NONE, 0 - TWO_GB_PAGES - 1, 0 - TWO_GB_PAGES, 1 - TWO_GB_PAGES,
     0 - EXTENDED_JUMP_PAGES, 1, TWO_GB_PAGES - EXTENDED_JUMP_PAGES,
     TWO_GB_PAGES - 1}

\* traced_task.rs:357-383 and remote.rs:142-147 for a process with the
\* mappings MapOf(S) whose stub_pages is empty or holds one page, place pages
\* from the page of rip, and a hook that is the k-th of the catalog: the stub
\* page found or the address the gap search gives, the slot, and rela.  The
\* stub page lies below the last range of the address space.
CallExtendedJumpFromTo(S, h, place, k) ==
    /\ calc = NoCall
    /\ InMap(MapOf(S), Addr(Hints[h][1], Hints[h][2]))
    /\ place # NONE => /\ place <= TOP_SENTINEL_PAGE - EXTENDED_JUMP_PAGES - Hints[h][1]
                       /\ Hints[h][1] + place >= 0
    /\ calc' =
         Let(Addr(Hints[h][1], Hints[h][2]), LAMBDA rip :
         Let(IF place = NONE THEN <<>>
             ELSE <<[address |-> rip.pg + place, size |-> EXTENDED_JUMP_PAGES,
                     allocated |-> Len(SYSCALL_HOOKS) * EXTENDED_JUMP_SIZE]>>,
             LAMBDA pages :
         Let({i \in 1..Len(pages) : StubPageReachable(pages[i], rip)}, LAMBDA hits :
         Let(IF hits = {}
             THEN search_stub_page(MapOf(S), rip, EXTENDED_JUMP_PAGES * PAGE_SIZE)
             ELSE [ok |-> TRUE,
                   val |-> pages[CHOOSE i \in hits : \A j \in hits : i <= j].address],
             LAMBDA page :
         Let(extended_jump_offset_from_stub_page(SYSCALL_HOOKS[k]), LAMBDA offset :
         Let(Addr(page.val + (offset \div PAGE_SIZE), offset % PAGE_SIZE), LAMBDA target :
           [f |-> "extended_jump_from_to", rip |-> rip, pages |-> pages,
            reused |-> hits # {}, ok |-> page.ok, target |-> target,
            rela |-> RelaOf(target, AddrAdd(rip, 0 - SYSCALL_INSN_SIZE))]))))))
    /\ Returns

NextUnit ==
    \/ \E n \in 0..MaxPrologue, d \in DisplacementPages, o \in DisplacementBytes :
          CallPatchBytes(n, d, o)
    \/ \E S \in SUBSET DOMAIN MapRanges, h \in DOMAIN Hints, n \in 1..MaxPages :
          CallSearchStubPage(S, h, n)
    \/ CallSanityCheck
    \/ \E a \in Words, b \in Words, c \in Words, d \in Words : CallGenExtendedJump(a, b, c, d)
    \/ \E n \in 0..MaxHooks, addr \in StubAddrs : CallGenExtendedJumpStubs(n, addr)
    \/ \E s \in Sites, gadget \in {8, 16}, i \in DOMAIN Injections, oc \in Outcome :
          CallRemoteSyscall(s, gadget, i, oc)
    \/ \E v \in RaxValues : CallResultFromRax(v)
    \/ \E S \in SUBSET DOMAIN MapRanges, h \in DOMAIN Hints, place \in StubPlaces,
             k \in DOMAIN SYSCALL_HOOKS :
          CallExtendedJumpFromTo(S, h, place, k)
    \/ \E n \in 0..MaxPrologue, m \in 0..MaxPrologue, j \in {0, 3, MaxPrologue} :
          CallFindSyscallHook(<<HookOfLen(n), HookOfLen(m)>>, CodeOf(j))

SpecUnit == Init /\ [][NextUnit]_vars

----------------------------------------------------------------------------
(* The start: run_tracer and run_tracee of strace.rs.  The tracer forks the  *)
(* root tracee; each then runs its statements in order, the tracee while it  *)
(* is not stopped, the tracer's waits when the tracee has stopped or ended.  *)

MaxEnvs == 1

\* a run_tracer that continues the tracee before it sets the options
run_tracer_steps_ContFirst ==
    <<"memfd", "fork", "wait_sigstop", "cont", "setoptions", "task_new", "run_all">>

\* strace.rs:224-266, in their order
run_tracer_steps ==
    <<"memfd", "fork", "wait_sigstop", "setoptions", "cont", "task_new", "run_all">>

\* strace.rs:97-146, in their order; execve is the syscall of execvpe in the
\* kernel, program the tracee in the new image
run_tracee_steps ==
    <<"prctl", "traceme", "raise", "init_signals", "envs", "seccomp", "println",
      "execvpe", "execve", "program">>

After(steps, pc) == steps[(CHOOSE i \in DOMAIN steps : steps[i] = pc) + 1]

\* before run_tracer: no tracee, no task, the standard descriptors
InitBoot ==
    /\ Is([Aborted EXCEPT !.tracer = "running"])
    /\ last = Idle
    /\ events = 0
    /\ calc = NoCall
    /\ \E host_envs \in BOOLEAN, host \in 0..MaxEnvs, envs \in 0..MaxEnvs :
          boot = [ argv |-> <<host_envs, host, envs>>,
                   tracer |-> run_tracer_steps[1], child |-> "none",
                   fds |-> {0, 1, 2}, child_fds |-> {},
                   traced |-> FALSE, options |-> {}, filter |-> FALSE,
                   stop |-> "none", envp |-> 0, seen |-> <<>> ]

WorldStays ==
    UNCHANGED <<tasks, memory_map, stub_pages, unpatchable_syscalls,
                patched_syscalls, sched, thr, mem, tracer, eff>>

\* strace.rs:224-266: the next statement of the tracer; oc is whether its
\* call succeeds
run_tracer(oc) ==
    /\ boot.tracer \in Range(run_tracer_steps)
    /\ UNCHANGED <<last, events, calc>>
    /\ \/ /\ boot.tracer = "memfd"
          \* memfd_create, dup2 to REVERIE_GLOBAL_STATE_FD, close, ftruncate
          /\ boot' = IF oc = "ok"
                     THEN [boot EXCEPT !.tracer = After(run_tracer_steps, @),
                                       !.fds = @ \cup {REVERIE_GLOBAL_STATE_FD}]
                     ELSE [boot EXCEPT !.tracer = "panic"]
          /\ WorldStays
       \/ /\ boot.tracer = "fork"
          /\ boot' = IF oc = "ok"
                     THEN [boot EXCEPT !.tracer = After(run_tracer_steps, @),
                                       !.child = run_tracee_steps[1],
                                       !.child_fds = boot.fds]
                     ELSE [boot EXCEPT !.tracer = "panic"]
          /\ WorldStays
       \/ /\ boot.tracer = "wait_sigstop"
          \* waitpid returns when the tracee has stopped or ended
          /\ boot.stop # "none" /\ oc = "ok"
          /\ boot' = IF boot.stop = "SIGSTOP"
                     THEN [boot EXCEPT !.tracer = After(run_tracer_steps, @),
                                       !.seen = Append(@, boot.stop)]
                     ELSE [boot EXCEPT !.tracer = "err", !.seen = Append(@, boot.stop)]
          /\ WorldStays
       \/ /\ boot.tracer = "setoptions"
          /\ boot' = IF oc = "ok" /\ boot.stop \notin {"none", "exited"}
                     THEN [boot EXCEPT !.tracer = After(run_tracer_steps, @),
                                       !.options = PtraceOptions]
                     ELSE [boot EXCEPT !.tracer = "err"]
          /\ WorldStays
       \/ /\ boot.tracer = "cont"
          /\ boot' = IF oc = "ok" /\ boot.stop \notin {"none", "exited"}
                     THEN [boot EXCEPT !.tracer = After(run_tracer_steps, @),
                                       !.stop = "none"]
                     ELSE [boot EXCEPT !.tracer = "err"]
          /\ WorldStays
       \/ /\ boot.tracer = "task_new"
          \* Task::new, SchedWait::new, sched.add
          /\ oc = "ok"
          /\ boot' = [boot EXCEPT !.tracer = After(run_tracer_steps, @)]
          /\ \E w \in {BootWorld} : Becomes(w)
       \/ /\ boot.tracer = "run_all"
          \* the wait of the scheduler reports a stop of the tracee: a SECCOMP
          \* stop is handled and the tracee continued; the EXEC stop is where
          \* the handlers of the events start
          /\ boot.stop # "none" /\ oc = "ok"
          /\ boot' = IF boot.stop = "SECCOMP"
                     THEN [boot EXCEPT !.stop = "none", !.seen = Append(@, boot.stop)]
                     ELSE [boot EXCEPT !.tracer = "events", !.seen = Append(@, boot.stop)]
          /\ WorldStays

\* strace.rs:97-152: the next statement of the root tracee, which runs while
\* it is not stopped.  With the filter installed a syscall made outside of
\* the whitelisted address stops the tracee with a SECCOMP event when the
\* tracer has set TRACESECCOMP, and fails with ENOSYS when it has not; an
\* exec stops it with an EXEC event when the tracer has set TRACEEXEC, and
\* with a SIGTRAP when it has not.
run_tracee(oc) ==
    /\ boot.child \in Range(run_tracee_steps) \ {"program"}
    /\ boot.stop = "none"
    /\ UNCHANGED <<last, events, calc>>
    /\ WorldStays
    /\ IF oc = "err"
       THEN /\ boot.child \in {"prctl", "traceme", "raise", "seccomp", "execve"}
            /\ boot' = IF boot.child = "seccomp"
                       THEN [boot EXCEPT !.child = After(run_tracee_steps, @)]
                       ELSE [boot EXCEPT !.child = "failed", !.stop = "exited"]
       ELSE boot' =
              IF boot.child = "traceme"
              THEN [boot EXCEPT !.child = After(run_tracee_steps, @), !.traced = TRUE]
              ELSE IF boot.child = "raise"
              THEN [boot EXCEPT !.child = After(run_tracee_steps, @),
                                !.stop = IF boot.traced THEN "SIGSTOP" ELSE "none"]
              ELSE IF boot.child = "envs"
              THEN [boot EXCEPT !.child = After(run_tracee_steps, @),
                                !.envp = (IF boot.argv[1] THEN boot.argv[2] ELSE 1)
                                            + boot.argv[3]]
              ELSE IF boot.child = "seccomp"
              THEN [boot EXCEPT !.child = After(run_tracee_steps, @), !.filter = TRUE]
              ELSE IF boot.child \in {"println", "execvpe"}
              THEN [boot EXCEPT !.child = After(run_tracee_steps, @),
                                !.stop = IF boot.filter /\ "TRACESECCOMP" \in boot.options
                                         THEN "SECCOMP" ELSE "none"]
              ELSE IF boot.child = "execve"
              THEN [boot EXCEPT !.child = After(run_tracee_steps, @),
                                !.stop = IF "TRACEEXEC" \in boot.options
                                         THEN "EXEC" ELSE "SIGTRAP"]
              ELSE [boot EXCEPT !.child = After(run_tracee_steps, @)]

NextBoot ==
    \/ \E oc \in {"ok", "err"} : run_tracer(oc)
    \/ \E oc \in {"ok", "err"} : run_tracee(oc)

SpecBoot == InitBoot /\ [][NextBoot]_vars

----------------------------------------------------------------------------
(* Properties.  They read the handler that just ran from `last`: the world   *)
(* it found (pre) and the world when patch_syscall had returned (ret).       *)

PatchedSites(w, t) == Range(w.patched_syscalls[w.tasks[t].patched_syscalls])
UnpatchableSites(w, t) == Range(w.unpatchable_syscalls[w.tasks[t].unpatchable_syscalls])
StubPagesOf(w, t) == w.stub_pages[w.tasks[t].stub_pages]

\* the helper library is loaded in the tracee of t, or was when t last looked
HelperIsLoaded(w, t) ==
    \/ w.tasks[t].ldpreload_address # NONE
    \/ /\ LOCAL_BASE_PAGE \in DOMAIN AS(w, t).pages
       /\ AS(w, t).tramp # 0

\* the seccomp handler just ran patch_syscall on the task last.tid
PatchRan == last.op = "SECCOMP" /\ last.pre.thr[last.tid].payload # UNFILTERED

\* patch_syscall left the tracee and the collections as it found them
NothingTouched ==
    /\ last.ret.eff = NoEffect
    /\ last.ret.mem = last.pre.mem
    /\ last.ret.thr = last.pre.thr
    /\ last.ret.patched_syscalls = last.pre.patched_syscalls
    /\ last.ret.unpatchable_syscalls = last.pre.unpatchable_syscalls
    /\ last.ret.stub_pages = last.pre.stub_pages

C1_Case ==
    /\ PatchRan
    /\ ~last.pre.tasks[last.tid].in_vfork
    /\ HelperIsLoaded(last.pre, last.tid)
    /\ last.rip \in PatchedSites(last.pre, last.tid)

\* C1: idempotence.  For a task that is not in vfork and whose helper library
\* is loaded, patch_syscall at an address that is already in patched_syscalls
\* returns Ok and is a no-op: no tracee memory written, no register changed,
\* no syscall injected, patched_syscalls, unpatchable_syscalls and stub_pages
\* unchanged.
C1_Idempotence == C1_Case => last.ok /\ NothingTouched

C1_Witness == C1_Case /\ last.ok /\ tracer = "running"

\* the task whose collections the task u of the world after a handler started
\* from: itself, or the task that created it
ParentOf(u) == IF u \in DOMAIN last.pre.tasks THEN u ELSE last.tid

C2_Case == PatchRan /\ last.rip \in UnpatchableSites(last.pre, last.tid)

FreshSite ==
    /\ PatchRan
    /\ ~last.pre.tasks[last.tid].in_vfork
    /\ HelperIsLoaded(last.pre, last.tid)
    /\ last.rip \notin PatchedSites(last.pre, last.tid)
    /\ last.rip \notin UnpatchableSites(last.pre, last.tid)

\* the site of the trap, by the address after its syscall instruction or by
\* the address of the instruction itself
Recorded(w, t, rip) ==
    UnpatchableSites(w, t) \cap {rip, AddrAdd(rip, 0 - SYSCALL_INSN_SIZE)} # {}

C4_Case == FreshSite /\ ~find_syscall_hook(last.pre, last.tid, last.rip).ok

\* C4: when the bytes at a trapped site match no hook of the catalog,
\* patch_syscall returns an error, leaves the pending syscall to the kernel
\* with its registers as they were (it is not skipped), and has recorded the
\* site in unpatchable_syscalls.
C4_NoMatchRecorded ==
    C4_Case => /\ ~last.ok
               /\ ~last.ret.eff.skipped
               /\ last.ret.thr[last.tid].regs = last.pre.thr[last.tid].regs
               /\ Recorded(last.ret, last.tid, last.rip)

C4_Witness == C4_Case /\ ~last.ok /\ tracer = "running"

\* traced_task.rs:373-377: no stub page of the process is within reach of rip
NoStubPageInReach(w, t, rip) ==
    \A i \in DOMAIN StubPagesOf(w, t) : ~StubPageReachable(StubPagesOf(w, t)[i], rip)

\* a hook matches, the pending syscall has been skipped, and a stub page has
\* to be allocated
HookMatched ==
    /\ FreshSite
    /\ find_syscall_hook(last.pre, last.tid, last.rip).ok
    /\ last.orc.step = "trap"

NoGap == ~SearchStubPage(last.pre, last.tid, last.rip, EXTENDED_JUMP_PAGES * PAGE_SIZE).ok

C5_Case ==
    /\ HookMatched
    /\ NoStubPageInReach(last.pre, last.tid, last.rip)
    /\ NoGap \/ last.orc.mmap = "err"

\* the registers that make the tracee execute the trapped syscall again
Rewound(regs) ==
    [regs EXCEPT !.rip = AddrAdd(regs.rip, 0 - SYSCALL_INSN_SIZE), !.rax = regs.orig_rax]

\* C5: when a hook matches but no stub page is found or allocated within reach
\* of the site (no gap in reach, or the injected mmap fails), patch_syscall
\* returns an error, has recorded the site in unpatchable_syscalls and has
\* rewound the tracee, and the trapped syscall is not lost when the tracee is
\* continued.
C5_SyscallNotLost ==
    C5_Case => /\ ~last.ok
               /\ Recorded(last.ret, last.tid, last.rip)
               /\ last.ret.thr[last.tid].regs = Rewound(last.pre.thr[last.tid].regs)
               /\ tracer = "running"
               /\ ~thr[last.tid].lost

C5_Witness == C5_Case /\ ~last.ok /\ tracer = "running" /\ thr[last.tid].lost

\* a hook matches, a stub page is in reach or has been allocated, and one of
\* the two mprotect calls that patch_at injects around its write fails
C6_Case ==
    /\ HookMatched
    /\ ~NoStubPageInReach(last.pre, last.tid, last.rip)
          \/ (~NoGap /\ last.orc.mmap = "ok" /\ last.orc.mprot_stub = "ok")
    /\ last.orc.mprot_w = "err" \/ last.orc.mprot_rx = "err"

\* C6: a failure of an mprotect injected around the patch write is a
\* recoverable patch failure: the tracer keeps running, patch_syscall returns
\* an error, has recorded the site in unpatchable_syscalls and has rewound the
\* tracee.
C6_MprotectRecoverable ==
    C6_Case => /\ tracer = "running"
               /\ ~last.ok
               /\ Recorded(last.ret, last.tid, last.rip)
               /\ last.ret.thr[last.tid].regs = Rewound(last.pre.thr[last.tid].regs)

C6_Witness == C6_Case /\ tracer = "panicked"

C7_Case == PatchRan /\ last.pre.tasks[last.tid].in_vfork

\* C7: the skip rule.  While a task has in_vfork set, patch_syscall on it
\* returns an error and touches nothing: no tracee memory written, no syscall
\* injected, no register changed, the pending syscall not skipped,
\* patched_syscalls, unpatchable_syscalls and stub_pages unchanged, and the
\* task itself as it was.
C7_SkipRule ==
    C7_Case => /\ ~last.ok
               /\ NothingTouched
               /\ last.ret.tasks = last.pre.tasks

\* the task in vfork trapped at a site that would have been patched: the bytes
\* match a hook, the address is in no list and the helper library is loaded
C7_Witness ==
    /\ C7_Case /\ ~last.ok /\ tracer = "running"
    /\ find_syscall_hook(last.pre, last.tid, last.rip).ok
    /\ last.rip \notin PatchedSites(last.pre, last.tid)
    /\ last.rip \notin UnpatchableSites(last.pre, last.tid)
    /\ AS(last.pre, last.tid).tramp # 0

C8_Case == last.op = "EXEC" /\ last.ok /\ tracer = "running"

\* C8: after the EXEC event of a task has been handled, its per-process state
\* is cleared: patched_syscalls, unpatchable_syscalls, memory_map and
\* stub_pages are empty, ldpreload_address is unset, in_vfork is false and no
\* signal is pending.
C8_ExecClears ==
    C8_Case =>
        LET task == last.ret.tasks[last.tid]
        IN  /\ PatchedSites(last.ret, last.tid) = {}
            /\ UnpatchableSites(last.ret, last.tid) = {}
            /\ last.ret.memory_map[task.memory_map] = <<>>
            /\ StubPagesOf(last.ret, last.tid) = <<>>
            /\ task.ldpreload_address = NONE
            /\ ~task.in_vfork
            /\ task.signal_to_deliver = "None"

\* an address patched in the old image is still in patched_syscalls
C8_Witness == C8_Case /\ PatchedSites(last.ret, last.tid) # {}

\* the four per-process collections as the task t sees them
Colls(w, t) ==
    [ memory_map |-> w.memory_map[w.tasks[t].memory_map],
      stub_pages |-> w.stub_pages[w.tasks[t].stub_pages],
      patched_syscalls |-> w.patched_syscalls[w.tasks[t].patched_syscalls],
      unpatchable_syscalls |-> w.unpatchable_syscalls[w.tasks[t].unpatchable_syscalls] ]

CollNames == {"memory_map", "stub_pages", "patched_syscalls", "unpatchable_syscalls"}

\* the task that the handler which has just run created
NewTask == last.pre.thr[last.tid].payload

C9_Case == last.op = "FORK" /\ tracer = "running"

\* C9: the task created on a FORK event has a new pid equal to its tid and
\* starts with memory_map, stub_pages, patched_syscalls and
\* unpatchable_syscalls equal to its parent's at the fork, held in cells that
\* no other task holds; and whatever a handler does on a task leaves the
\* collections of every task of another process as they were.
C9_ForkCopies ==
    /\ C9_Case =>
          /\ last.ret.tasks[NewTask].pid = NewTask
          /\ last.ret.tasks[NewTask].tid = NewTask
          /\ \A u \in DOMAIN last.pre.tasks : last.pre.tasks[u].pid # NewTask
          /\ Colls(last.ret, NewTask) = Colls(last.pre, last.tid)
          /\ \A u \in DOMAIN last.ret.tasks \ {NewTask} : \A f \in CollNames :
                 last.ret.tasks[u][f] # last.ret.tasks[NewTask][f]
    /\ last.op # "none" /\ tracer = "running" =>
          \A u \in DOMAIN last.pre.tasks \cap DOMAIN last.ret.tasks :
              last.pre.tasks[u].pid # last.pre.tasks[last.tid].pid
                  => Colls(last.ret, u) = Colls(last.pre, u)

\* a forked task has just started with a copy of a patched address
C9_Witness ==
    /\ C9_Case
    /\ PatchedSites(last.ret, NewTask) # {}
    /\ StubPagesOf(last.ret, NewTask) # <<>>
    /\ NewTask \in DOMAIN tasks

C10_Case == last.op = "CLONE" /\ tracer = "running"

\* C10: the task created on a CLONE event keeps the pid of its creator and
\* holds the very cells of memory_map, stub_pages, patched_syscalls and
\* unpatchable_syscalls that its creator holds; and in every state any two
\* tasks of one process see the same four collections, so an address that one
\* thread patched or marked unpatchable is patched or unpatchable for all.
C10_CloneShares ==
    /\ C10_Case =>
          /\ last.ret.tasks[NewTask].pid = last.pre.tasks[last.tid].pid
          /\ last.ret.tasks[NewTask].tid = NewTask
          /\ \A f \in CollNames : last.ret.tasks[NewTask][f] = last.ret.tasks[last.tid][f]
    /\ \A t, u \in DOMAIN tasks :
          tasks[t].pid = tasks[u].pid => Colls(World, t) = Colls(World, u)

\* the thread created by a clone has just patched an address, and its creator
\* sees it
C10_Witness ==
    /\ PatchRan /\ last.ok /\ tracer = "running"
    /\ last.tid # RootTid
    /\ last.rip \notin PatchedSites(last.pre, last.tid)
    /\ \E u \in DOMAIN tasks \ {last.tid} :
          /\ last.tid \in DOMAIN tasks
          /\ tasks[u].pid = tasks[last.tid].pid
          /\ last.rip \in PatchedSites(World, u)

C11_Case == last.op = "VFORK" /\ tracer = "running"

\* the task that do_ptrace_fork would have created from the same state
AsOnFork == do_ptrace_fork(last.pre, last.tid).tasks[NewTask]

\* the VFORK handler made the task a FORK makes, but in vfork, and left its
\* creator's flag alone
C11_Created ==
    C11_Case =>
        /\ last.ret.tasks[NewTask] = [AsOnFork EXCEPT !.in_vfork = TRUE]
        /\ last.ret.tasks[NewTask].in_vfork
        /\ Colls(last.ret, NewTask) = Colls(last.pre, last.tid)
        /\ last.ret.tasks[last.tid].in_vfork = last.pre.tasks[last.tid].in_vfork

\* a step that takes the flag from a task is the handling of its EXEC event
C11_Cleared ==
    \A t \in DOMAIN tasks :
        t \in DOMAIN tasks' /\ tasks[t].in_vfork /\ ~tasks'[t].in_vfork
            => last'.op = "EXEC" /\ last'.tid = t

\* C11: on a VFORK event the new task is created as on FORK but with
\* in_vfork = true, and its creator's in_vfork is unchanged; the new task's
\* in_vfork stays true in every step but the one in which it handles an EXEC
\* event.
C11_VforkChild == [][C11_Created' /\ C11_Cleared]_vars

\* the VFORK handler has just created a task in vfork from a creator that is
\* not
C11_Witness ==
    /\ C11_Case
    /\ NewTask \in DOMAIN tasks
    /\ tasks[NewTask].in_vfork
    /\ ~tasks[last.tid].in_vfork

\* a task in state Exited stays as it is: its state is not written, its
\* thread is not set running, and no handler runs on it
ExitedIsTerminal ==
    \A t \in DOMAIN tasks \cap DOMAIN tasks' :
        tasks[t].state.k = "Exited" =>
            /\ tasks'[t].state = tasks[t].state
            /\ thr'[t].st = "run" => thr[t].st = "run"
            /\ ~(last'.op # "none" /\ last'.tid = t)

\* no task in state Exited has a thread that the tracer has continued
ExitedNotResumed ==
    tracer = "running" =>
        \A t \in DOMAIN tasks : tasks[t].state.k = "Exited" => thr[t].st # "run"

\* C12: every task starts in state Ready, and Exited is terminal: a task whose
\* state is Exited is never resumed, never handles another event and is never
\* run again.  (The wait loop, not the task, writes the states between Ready
\* and Exited; the model has them as the loop reports them.)
C12_Lifecycle ==
    /\ \A t \in DOMAIN tasks : tasks[t].state = Ready
    /\ [][/\ \A t \in DOMAIN tasks' \ DOMAIN tasks : tasks'[t].state = Ready
          /\ ExitedIsTerminal
          /\ ExitedNotResumed']_vars

\* the EXEC handler has left its task in state Exited and continued it
C12_Witness ==
    /\ last.op = "EXEC" /\ last.ok /\ tracer = "running"
    /\ tasks[last.tid].state = Exited(0)
    /\ thr[last.tid].st = "run"

\* the address patch_at writes at, and the patch it writes there, for the
\* trap that has just been handled
PatchIp == AddrAdd(last.rip, 0 - SYSCALL_INSN_SIZE)
PatchLen ==
    SYSCALL_INSN_SIZE + Len(find_syscall_hook(last.pre, last.tid, last.rip).hook.instructions)
PatchCrosses == PatchIp.off + PatchLen > PAGE_SIZE

\* the mprotect calls that the handler injected on the page of the patch
PatchProtects ==
    SelectSeq(last.ret.eff.calls,
              LAMBDA c : c.nr = SYS_mprotect /\ c.pg = PatchIp.pg)

\* the kernel ran both mprotect calls of the patch (no signal came between)
Undisturbed == last.orc.mprot_w = "ok" /\ last.orc.mprot_rx = "ok"

C13_Case ==
    /\ PatchRan
    /\ find_syscall_hook(last.pre, last.tid, last.rip).ok
    /\ PatchProtects # <<>>

\* C13: when the patch bytes written at rip - 2 cross a page boundary, both
\* injected mprotect calls of patch_at use the page of rip - 2 with a span of
\* two pages (0x2000), the first with PROT_WRITE and the second with R|X, so
\* both pages are R|X when the patch is done; when the patch lies in one page
\* the span is one page (0x1000).
C13_PatchSpan ==
    C13_Case =>
        LET span == IF PatchCrosses THEN 2 ELSE 1
        IN  /\ \A i \in DOMAIN PatchProtects : PatchProtects[i].n = span
            /\ PatchProtects[1].prot = "-w-"
            /\ Len(PatchProtects) <= 2
            /\ Len(PatchProtects) = 2 => PatchProtects[2].prot = "r-x"
            /\ last.ok /\ Undisturbed =>
                   /\ Len(PatchProtects) = 2
                   /\ \A p \in PatchIp.pg..(PatchIp.pg + span - 1) :
                          AS(last.ret, last.tid).pages[p] = "r-x"

\* a patch that crosses into the next page has been written under an mprotect
\* of one page
C13_Witness ==
    /\ C13_Case /\ PatchCrosses /\ last.ok /\ tracer = "running"
    /\ PatchProtects[1].n = 1
    /\ Prefix(AS(last.ret, last.tid).text[PatchIp], 1) = <<232>>

\* the value of the little-endian bytes b
RECURSIVE FromLE(_)
FromLE(b) == IF b = <<>> THEN 0 ELSE b[1] + 256 * FromLE(Tail(b))

\* the address a call at ip with the operand bytes r (a little-endian signed
\* rel32) goes to: ip + 5 + rel32.  The three high bytes of r are a signed
\* number h of 256-byte units, 16 of them to a page.
CallTarget(ip, r) ==
    LET u == FromLE(SubSeq(r, 2, 4))
        h == IF u >= 8388608 THEN u - 16777216 ELSE u
        byte == ip.off + JMP_INSN_SIZE + (h % 16) * 256 + r[1]
    IN  Addr(ip.pg + (h \div 16) + (byte \div PAGE_SIZE), byte % PAGE_SIZE)

\* what a reader of the tracee of t finds at ip, for the hook k of the catalog:
\* the call, its operand and the padding; the slot k of a stub page of the
\* task where the call goes to; in the slot the address of the hook in the
\* helper library
RoundTrip(w, t, ip, k) ==
    LET hook == SYSCALL_HOOKS[k]
        len == SYSCALL_INSN_SIZE + Len(hook.instructions)
        code == Prefix(AS(w, t).text[ip], len)
        target == CallTarget(ip, SubSeq(code, 2, 5))
        first == EXTENDED_JUMP_SIZE * (k - 1)
    IN  /\ code[1] = 232
        /\ SubSeq(code, JMP_INSN_SIZE + 1, len) = NopPadding(len - JMP_INSN_SIZE)
        /\ \E i \in DOMAIN StubPagesOf(w, t) :
              /\ target = Addr(StubPagesOf(w, t)[i].address, first)
              /\ target.pg \in DOMAIN AS(w, t).stubs
              /\ Len(AS(w, t).stubs[target.pg]) >= first + 14
              /\ FromLE(SubSeq(AS(w, t).stubs[target.pg], first + 7, first + 14))
                     = w.tasks[t].ldpreload_address + hook.offset
        /\ w.tasks[t].ldpreload_address = HelperBase

C14_Case == PatchRan /\ last.ok

\* C14: round trip.  After patch_syscall succeeds for a site, the
\* 2 + len(prologue) bytes at rip - 2 are E8, a little-endian rel32, then NOP
\* padding; rel32 + (rip - 2) + 5 is the address of the stub slot of the
\* matched hook (stub page address + 128 * index of the hook in the catalog),
\* and the 8 bytes at offset 6 of that slot equal helper_load_base +
\* hook.offset.
C14_RoundTrip ==
    C14_Case =>
        \E k \in DOMAIN SYSCALL_HOOKS :
            /\ RoundTrip(last.ret, last.tid, PatchIp, k)
            /\ FreshSite /\ find_syscall_hook(last.pre, last.tid, last.rip).ok
                  => SYSCALL_HOOKS[k] = find_syscall_hook(last.pre, last.tid, last.rip).hook

\* patch_syscall has returned Ok for a site whose bytes are the unpatched
\* syscall instruction of a new image
C14_Witness ==
    /\ C14_Case /\ tracer = "running"
    /\ Prefix(AS(last.ret, last.tid).text[PatchIp], SYSCALL_INSN_SIZE) = <<15, 5>>
    /\ last.rip \in PatchedSites(last.pre, last.tid)

\* the NOP of each length, as the instruction set has them
NopTable ==
    << <<144>>,
       <<102, 144>>,
       <<15, 31, 0>>,
       <<15, 31, 64, 0>>,
       <<15, 31, 68, 0, 0>>,
       <<102, 15, 31, 68, 0, 0>>,
       <<15, 31, 128, 0, 0, 0, 0>>,
       <<15, 31, 132, 0, 0, 0, 0, 0>>,
       <<102, 15, 31, 132, 0, 0, 0, 0, 0>> >>

\* the padding a hook asks for: 2 + len(prologue) - 5
PaddingOf(hook) == SYSCALL_INSN_SIZE + Len(hook.instructions) - JMP_INSN_SIZE

C15_Case ==
    /\ calc.f = "patch_bytes"
    /\ PaddingOf(calc.hook) \in 0..9
    /\ RelaInRange(calc.rela.d, calc.rela.o)

\* C15: the NOP-padding law.  For every padding in 0..9, the patch that
\* patch_at builds for a hook with padding = 2 + len(prologue) - 5 has the
\* total length padding + 5 = 2 + len(prologue), and its bytes after the
\* 5-byte call are exactly the NOP of that length in the table (none for 0).
C15_NopPadding ==
    C15_Case =>
        LET padding == PaddingOf(calc.hook)
            bytes == calc.out.bytes
        IN  /\ calc.out.ok
            /\ Len(bytes) = padding + JMP_INSN_SIZE
            /\ Len(bytes) = SYSCALL_INSN_SIZE + Len(calc.hook.instructions)
            /\ bytes[1] = 232
            /\ SubSeq(bytes, JMP_INSN_SIZE + 1, Len(bytes))
                   = IF padding = 0 THEN <<>> ELSE NopTable[padding]

\* the patch with the longest padding has been built
C15_Witness ==
    /\ C15_Case
    /\ PaddingOf(calc.hook) = 9
    /\ Len(calc.out.bytes) = 14

\* a and b are at most 2^31 - 2^20 bytes apart
InWindow(a, b) ==
    IF AddrLeq(a, b) THEN WithinPages(a, b, TWO_GB_PAGES - ONE_MB_PAGES)
    ELSE WithinPages(b, a, TWO_GB_PAGES - ONE_MB_PAGES)

\* the n pages from the page pg on meet no range of the mappings
FreeIn(mappings, pg, n) ==
    \A i \in DOMAIN mappings : pg + n <= mappings[i].base \/ mappings[i].end <= pg

C16_Case == calc.f = "search_stub_page" /\ calc.out.ok

\* C16: for every address that search_stub_page returns for a hint h and a
\* page count n, |addr - h| <= 2^31 - 2^20 and the range [addr, addr + n*4096)
\* is disjoint from every range of the tracee's current memory map.
C16_GapSearch ==
    C16_Case =>
        /\ InWindow(PageAddr(calc.out.val), calc.addr_hint)
        /\ FreeIn(calc.mappings, calc.out.val, calc.pages)

\* the search has returned an address inside a mapped range
C16_Witness ==
    /\ C16_Case
    /\ InMap(calc.mappings, PageAddr(calc.out.val))

\* the gaps of the mappings in ascending order, the first from the low
\* sentinel (1 MiB) and the last up to the high one
GapsOf(mappings) ==
    [i \in 1..(Len(mappings) + 1) |->
        [from |-> IF i = 1 THEN ONE_MB_PAGES ELSE mappings[i - 1].end,
         to   |-> IF i > Len(mappings) THEN TOP_SENTINEL_PAGE ELSE mappings[i].base]]

\* the gap holds n pages and one of its endpoints is in the window of h
Suitable(gap, h, n) ==
    /\ gap.to - gap.from >= n
    /\ InWindow(PageAddr(gap.from), h) \/ InWindow(PageAddr(gap.to), h)

C17_Case == calc.f = "search_stub_page"

\* C17: search_stub_page walks the gaps between adjacent mapped ranges (with
\* the low and high sentinels) in ascending address order and returns the
\* first gap that holds n pages and has either endpoint within the 2 GiB
\* window of rip; it returns the error only when no such gap exists.
C17_FirstGap ==
    C17_Case =>
        LET gaps == GapsOf(calc.mappings)
            good == {i \in DOMAIN gaps : Suitable(gaps[i], calc.addr_hint, calc.pages)}
        IN  IF good = {} THEN ~calc.out.ok
            ELSE /\ calc.out.ok
                 /\ LET first == gaps[CHOOSE i \in good : \A j \in good : i <= j]
                    IN  /\ first.from <= calc.out.val
                        /\ calc.out.val + calc.pages <= first.to

\* the search has returned the error though a gap that holds the pages ends
\* within the window of the hint
C17_Witness ==
    /\ C17_Case
    /\ ~calc.out.ok
    /\ \E i \in DOMAIN GapsOf(calc.mappings) :
          Suitable(GapsOf(calc.mappings)[i], calc.addr_hint, calc.pages)
    /\ ~InMap(calc.mappings, Addr(16, 0))

\* C18: the 14 slots of the stub data are SYSCALL_HOOK_SIZE,
\* SYSCALL_HOOK_ADDR, STUB_SCRATCH, STACK_NESTING_LEVEL, SYSCALL_TRAMPOLINE,
\* SYSTOOL_HOOK, SYSCALL_PATCH_LOCK, SYSTOOL_LOG_LEVEL, REVERIE_LOCAL_STATE,
\* REVERIE_GLOBAL_STATE, SYSCALL_HELPER, RPC_HELPER, DPC_FUTEX,
\* TLS_GET_ADDR_OFFSET in that order, and the slot of index i (from 0) lies
\* at LOCAL_BASE + 8 * i, where LOCAL_BASE = 0x7000_0000 + 0x1000 is offset 0
\* of page 0x70001.
C18_Case == calc.f = "det_tls_sanity_check"

C18_Order ==
    << "SYSCALL_HOOK_SIZE", "SYSCALL_HOOK_ADDR", "STUB_SCRATCH",
       "STACK_NESTING_LEVEL", "SYSCALL_TRAMPOLINE", "SYSTOOL_HOOK",
       "SYSCALL_PATCH_LOCK", "SYSTOOL_LOG_LEVEL", "REVERIE_LOCAL_STATE",
       "REVERIE_GLOBAL_STATE", "SYSCALL_HELPER", "RPC_HELPER",
       "DPC_FUTEX", "TLS_GET_ADDR_OFFSET" >>

C18_Layout ==
    C18_Case =>
        /\ Len(calc.slots) = 14
        /\ \A i \in 1..14 :
              calc.slots[i] = <<C18_Order[i], 7 * 65536 + 1, 8 * (i - 1)>>
        /\ calc.out

C18_Witness ==
    /\ C18_Case
    /\ calc.slots[1] = <<"SYSCALL_HOOK_SIZE", LOCAL_BASE_PAGE, 0>>
    /\ calc.slots[14] = <<"TLS_GET_ADDR_OFFSET", LOCAL_BASE_PAGE, 104>>

\* C19: gen_extended_jump(x) is 14 bytes for every 64-bit x: ff 25 00 00 00
\* 00 and then the 8 bytes of x, least significant first.  The output of
\* gen_extended_jump_stubs(hooks, addr) has one 128-byte slot per hook: slot k
\* (from 0) starts at offset 128 * k, holds the jump to addr + hooks[k].offset
\* and zero bytes after it; 32 slots fill no more than 4 KiB.
JumpPrefix == <<255, 37, 0, 0, 0, 0>>

\* the bytes b[from..from+7] are bytes and are the u64 x, least significant
\* first
IsLE64(b, from, x) ==
    /\ \A j \in 0..7 : b[from + j] \in 0..255
    /\ \A i \in 0..3 : b[from + 2 * i] + 256 * b[from + 2 * i + 1] = x[i + 1]

C19_JumpCase == calc.f = "gen_extended_jump"

C19_StubsCase == calc.f = "gen_extended_jump_stubs"

\* the bytes of slot k (from 0) of the stubs returned
SlotOf(k) == SubSeq(calc.out, 128 * k + 1, 128 * k + 128)

C19_ExtendedJump ==
    /\ C19_JumpCase =>
          /\ Len(calc.out) = 14
          /\ SubSeq(calc.out, 1, 6) = JumpPrefix
          /\ IsLE64(calc.out, 7, calc.x)
    /\ C19_StubsCase =>
          /\ Len(calc.out) = 128 * Len(calc.hooks)
          /\ Len(calc.hooks) <= 32 => Len(calc.out) <= 4096
          /\ \A k \in 0..(Len(calc.hooks) - 1) :
                /\ SubSeq(SlotOf(k), 1, 6) = JumpPrefix
                /\ FromLE(SubSeq(SlotOf(k), 7, 14)) = calc.addr + calc.hooks[k + 1].offset
                /\ \A i \in 15..128 : SlotOf(k)[i] = 0

\* a target with bits set in each of its 16-bit words, and a catalog of 32
\* hooks at a load address that is not 0
C19_Witness ==
    \/ /\ C19_JumpCase
       /\ calc.x = <<4660, 65535, 255, 256>>
       /\ calc.out = JumpPrefix \o <<52, 18, 255, 255, 255, 0, 0, 1>>
    \/ /\ C19_StubsCase
       /\ Len(calc.hooks) = 32
       /\ calc.addr = HelperBase
       /\ Len(calc.out) = PAGE_SIZE

\* C20: when the handling of an exec has returned Ok (tracee_preinit ran in
\* it), the 24 bytes at 0x7000_0000 of the tracee are 0f 05 c3 90, 0f 05 c3
\* 90, e8 f3 ff ff ff cc 66 90, e8 ef ff ff ff cc 66 90 in a mapped page; the
\* call at +0x08 goes to 0x7000_0000 and the call at +0x10 to 0x7000_0004,
\* where a syscall and a ret stand, and the byte each call returns to (the one
\* after its 5 bytes) is the int3 cc.
C20_Case == last.op = "EXEC" /\ last.ok /\ tracer = "running"

Gadgets ==
    << 15, 5, 195, 144, 15, 5, 195, 144,
       232, 243, 255, 255, 255, 204, 102, 144,
       232, 239, 255, 255, 255, 204, 102, 144 >>

\* the bytes at 0x7000_0000 of the tracee of the task just handled
PrivateBytes == last.ret.mem[last.ret.thr[last.tid].as].priv

\* the byte at 0x7000_0000 + off
PrivateAt(off) == PrivateBytes[off + 1]

\* a call stands at +off, goes to +to and returns onto an int3; at +to stand
\* syscall and ret
CallsGadget(off, to) ==
    /\ PrivateAt(off) = 232
    /\ CallTarget(Addr(PRIVATE_PAGE, off), SubSeq(PrivateBytes, off + 2, off + 5))
          = Addr(7 * 65536, to)
    /\ PrivateAt(off + JMP_INSN_SIZE) = 204
    /\ <<PrivateAt(to), PrivateAt(to + 1), PrivateAt(to + 2)>> = <<15, 5, 195>>

C20_GadgetIntegrity ==
    C20_Case =>
        /\ Mapped(last.ret, last.tid, 7 * 65536)
        /\ PrivateBytes = Gadgets
        /\ CallsGadget(8, 0)
        /\ CallsGadget(16, 4)

\* the exec of a process whose image before it held no private page
C20_Witness ==
    /\ C20_Case
    /\ ~Mapped(last.pre, last.tid, PRIVATE_PAGE)
    /\ Len(PrivateBytes) = 24

\* an injected syscall has returned to its caller
Injected == calc.f = "remote_do_syscall_at" /\ calc.returned

\* C21: whenever an injected syscall, through the gadget at 0x7000_0008 or the
\* one at 0x7000_0010, returns to its caller, with a result or with an error,
\* the registers of the tracee are those of the snapshot taken before the
\* injection.
C21_RegistersRestored == Injected => calc.regs = calc.snapshot

\* an injection through the traced gadget has returned an error, at a stop
\* behind a syscall instruction
C21_Witness ==
    /\ Injected
    /\ calc.gadget = 16
    /\ ~calc.ok
    /\ calc.snapshot = <<SiteA.pg, SiteA.off + SYSCALL_INSN_SIZE,
                         Linux.SYS_getpid, 0 - Linux.ENOSYS>>
    /\ calc.regs = calc.snapshot

\* the value an injected syscall gives when it is done: the address for mmap,
\* 0 for mprotect
ResultOf(nr, pg) == IF nr = SYS_mmap THEN <<pg, 0>> ELSE <<0, 0>>

C22_Case == Injected /\ calc.oc = "sigchld"

\* C22: when the stop seen while waiting for an injected syscall is a SIGCHLD,
\* the injector stores SIGCHLD in signal_to_deliver and what it returns is the
\* result of the injected syscall, read after the SIGTRAP of the gadget: a
\* call that returns Ok returns the syscall's value and the syscall has acted
\* on the tracee.
C22_SigchldThenTrap ==
    C22_Case =>
        /\ calc.signal_to_deliver = "SIGCHLD"
        /\ calc.ok => /\ calc.val = ResultOf(calc.nr, calc.pg)
                      /\ calc.now = calc.prot

\* a SIGCHLD stopped the tracee: the call returned Ok with the number of the
\* syscall for its value, and the pages of the tracee are as they were
C22_Witness ==
    /\ C22_Case
    /\ calc.signal_to_deliver = "SIGCHLD"
    /\ calc.ok
    /\ calc.val = <<0, calc.nr>>
    /\ calc.now = calc.was
    /\ calc.now # calc.prot

C23_Case == calc.f = "result_from_rax"

\* the translation gives what it is to give when the errors are the values
\* of rax from lowest to -1
Translates(lowest) ==
    /\ calc.out.ok <=> calc.rax \notin lowest..(0 - 1)
    /\ ~calc.out.ok => calc.out.errno = 0 - calc.rax
    /\ calc.out.ok => calc.out.val = AsU64(calc.rax)

\* C23 as stated: an injected syscall returns an error exactly when rax after
\* the gadget, read as a signed 64-bit value, is in [-4096, -1], with errno =
\* -rax, and Ok(rax) for every other rax.
C23_ErrorRange == C23_Case => Translates(0 - 4096)

\* C23 amended: an injected syscall returns an error exactly when rax after
\* the gadget, read as a signed 64-bit value, is in [-4095, -1], with errno =
\* -rax, and Ok(rax) for every other rax; rax = -4096 is returned as Ok(-4096).
C23_ErrorRangeAmended == C23_Case => Translates(0 - 4095)

\* rax = -4096 came back as a result
C23_Witness ==
    /\ C23_Case
    /\ calc.rax = 0 - 4096
    /\ calc.out.ok
    /\ calc.out.val = <<61440, 65535, 65535, 65535>>

\* the tracer runs on, the task just handled is still a task of the tracer
\* and its tracee has been continued, and the tracer holds the tasks it held
HandedBackRunning ==
    /\ tracer = "running"
    /\ last.tid \in DOMAIN tasks
    /\ thr[last.tid].st = "run"
    /\ DOMAIN tasks = DOMAIN last.pre.tasks

\* C24: on every SECCOMP event the handler continues the tracee whether
\* patch_syscall succeeded or failed; a patch failure is not propagated: the
\* task is handed back as runnable, and no task is terminated because a site
\* could not be patched.
C24_SeccompContinues == PatchRan => HandedBackRunning

\* the mprotect that is to make the site writable failed with an error, all
\* else went well, and the tracer is gone with all its tasks
C24_Witness ==
    /\ PatchRan
    /\ last.orc = [step |-> "trap", mmap |-> "ok", mprot_stub |-> "ok",
                   mprot_w |-> "err", poke |-> "ok", mprot_rx |-> "ok"]
    /\ tracer = "panicked"
    /\ tasks = <<>>

\* a wait that the handler just run made reported a status that the handler
\* does not expect: the wait for the first breakpoint of an exec, or the wait
\* behind the step of an exit
UnexpectedStatus ==
    \/ last.op = "EXEC" /\ last.orc.bp = "other"
    \/ last.op = "EXIT" /\ last.orc.wait = "other"

\* C25: an unexpected wait status (as an unknown ptrace event and a ptrace I/O
\* failure) on one live task is fatal for that task only: the task is killed,
\* the tracer does not abort and goes on with the other tasks it holds.
C25_PerTaskFatal ==
    UnexpectedStatus =>
        /\ tracer = "running"
        /\ last.tid \notin DOMAIN tasks
        /\ \A u \in DOMAIN last.pre.tasks \ {last.tid} : u \in DOMAIN tasks

\* the tracer held two tasks, a wait on one of them reported an unexpected
\* status, and the tracer is gone
C25_Witness ==
    /\ UnexpectedStatus
    /\ Cardinality(DOMAIN last.pre.tasks) >= 2
    /\ tracer = "panicked"
    /\ tasks = <<>>

\* the address space of the task just handled, where the handler found it and
\* where it left it
SpaceBefore == last.pre.mem[last.pre.thr[last.tid].as]
SpaceAfter == last.ret.mem[last.ret.thr[last.tid].as]

PrivateRange == PRIVATE_PAGE..(PRIVATE_PAGE + PRIVATE_PAGE_PAGES - 1)

\* C26: when an EXEC event has been handled, the 8 bytes at the entry of the
\* new image are what they were at the EXEC stop, the registers of the tracee,
\* rip included, are those of the EXEC stop, and the address space of the
\* tracee differs from the one of the EXEC stop in nothing but the private
\* page at 0x7000_0000, now mapped and holding the gadgets.
C26_ExecFrame ==
    last.op = "EXEC" /\ last.ok /\ tracer = "running" =>
        /\ SpaceAfter.entry = SpaceBefore.entry
        /\ last.ret.thr[last.tid].regs = last.pre.thr[last.tid].regs
        /\ [SpaceAfter EXCEPT !.pages = SpaceBefore.pages, !.priv = SpaceBefore.priv]
              = SpaceBefore
        /\ DOMAIN SpaceAfter.pages = DOMAIN SpaceBefore.pages \cup PrivateRange
        /\ \A p \in DOMAIN SpaceBefore.pages \ PrivateRange :
              SpaceAfter.pages[p] = SpaceBefore.pages[p]
        /\ SpaceAfter.priv # <<>>

\* the exec of an image whose entry holds the bytes of its first instructions
\* and whose registers point at it
C26_Witness ==
    /\ last.op = "EXEC" /\ last.ok /\ tracer = "running"
    /\ SpaceBefore.entry = EntryBytes
    /\ SpaceBefore.priv = <<>>
    /\ SpaceAfter.priv # <<>>
    /\ PRIVATE_PAGE \notin DOMAIN SpaceBefore.pages
    /\ PRIVATE_PAGE \in DOMAIN SpaceAfter.pages

\* the tracee of t, running, stops in this step with a SECCOMP event for the
\* syscall instruction at s
Traps(t, s) ==
    /\ t \in DOMAIN thr /\ t \in DOMAIN thr'
    /\ thr[t].st = "run"
    /\ thr'[t].st = "stop" /\ thr'[t].ev = "SECCOMP"
    /\ thr'[t].regs.rip = AddrAdd(s, SYSCALL_INSN_SIZE)

\* the site s of the tracee of t holds a call, no syscall instruction
CallAt(w, t, s) == AS(w, t).text[s][1] = 232 /\ ~IsSyscallInsn(w, t, s)

Occurrences(seq, x) == Cardinality({i \in DOMAIN seq : seq[i] = x})

\* patch_syscall has patched a site that was in neither list
C27_Case == PatchRan /\ last.ok /\ FreshSite /\ tracer = "running"

\* what the patch of a site leaves for the later executions of the site
C27_Patched ==
    /\ C27_Case =>
          /\ CallAt(last.ret, last.tid, PatchIp)
          /\ CallAt(World, last.tid, PatchIp)
          /\ thr[last.tid].st = "run" /\ thr[last.tid].regs.rip # PatchIp
          /\ Occurrences(last.ret.patched_syscalls[last.ret.tasks[last.tid].patched_syscalls],
                         last.rip) = 1
          /\ Len(last.ret.patched_syscalls[last.ret.tasks[last.tid].patched_syscalls])
                = Len(last.pre.patched_syscalls[last.pre.tasks[last.tid].patched_syscalls]) + 1
          /\ UnpatchableSites(last.ret, last.tid) = {}
    /\ \A t \in DOMAIN tasks : \A a \in PatchedSites(World, t) :
          /\ Occurrences(patched_syscalls[tasks[t].patched_syscalls], a) = 1
          /\ a \notin UnpatchableSites(World, t)

\* a tracee execs in this step
Execs == \E u \in DOMAIN thr \cap DOMAIN thr' : thr[u].ev # "EXEC" /\ thr'[u].ev = "EXEC"

\* a step in which no tracee execs leaves the call at the site s of the tracee
\* of t, and every step leaves the addresses in the list of t
C27_Stays(t, s) ==
    /\ t \in DOMAIN thr /\ t \in DOMAIN thr' /\ CallAt(World, t, s) /\ ~Execs
          => mem'[thr'[t].as].text[s][1] = 232
    /\ t \in DOMAIN tasks /\ t \in DOMAIN tasks'
          => \A a \in PatchedSites(World, t) :
                a \in Range(patched_syscalls'[tasks'[t].patched_syscalls])

ExitCodeIn(status) == (status \div 256) % 256

C28_Case == last.op = "EXIT" /\ tracer = "running"

\* the RunTask::Exited the handler of the EXIT event returned
ExitOutcome == last.ret.tasks[last.tid].state

\* C28: the handler of an EXIT event steps the task once and waits for it,
\* and the task is gone; when the wait reports a normal exit the outcome is
\* Exited(code), code the exit code of the tracee, and when the wait reports
\* a death by a signal it is Exited(0x80 | signal): the exit code the tracer
\* reports for the program.
C28_ExitCode ==
    C28_Case =>
        /\ last.tid \notin DOMAIN tasks
        /\ thr[last.tid].st = "dead"
        /\ last.orc.wait = "exited"
              => ExitOutcome = Exited(ExitCodeIn(last.pre.thr[last.tid].payload))
        /\ last.orc.wait = "signaled" => ExitOutcome = Exited(128 + Linux.SIGKILL)

\* the tracee has left with the exit code 1 and the wait reported its exit
C28_Witness ==
    /\ C28_Case /\ last.orc.wait = "exited"
    /\ ExitCodeIn(last.pre.thr[last.tid].payload) = 1
    /\ ExitOutcome = Exited(last.pre.thr[last.tid].payload)

\* a read of the SYSCALL_TRAMPOLINE slot of the tracee of t returns a value
\* that is not zero
SlotFilled(w, t) == ReadTrampolineSlot(w, t) \notin {NONE, 0}

\* ldpreload_address of the task t, when set, is the value of the slot
\* rounded down to the page size
AgreesWithSlot(w, t) ==
    w.tasks[t].ldpreload_address # NONE
        => /\ SlotFilled(w, t)
           /\ w.tasks[t].ldpreload_address
                 = ReadTrampolineSlot(w, t) - (ReadTrampolineSlot(w, t) % PAGE_SIZE)

\* ldpreload_address of the task t is set exactly when the slot is filled
ExactlySlot(w, t) ==
    /\ AgreesWithSlot(w, t)
    /\ SlotFilled(w, t) => w.tasks[t].ldpreload_address # NONE

\* the tasks whose tracee lives and has no EXEC event waiting for its handler
SettledTasks ==
    {t \in DOMAIN tasks : /\ t \in DOMAIN thr /\ thr[t].st # "dead"
                          /\ ~(thr[t].st = "stop" /\ thr[t].ev = "EXEC")}

\* C29: in every state of a task, ldpreload_address is set if and only if a
\* read of the SYSCALL_TRAMPOLINE slot of its tracee returns a value that is
\* not zero, and when set it is that value rounded down to 4096.
C29_HelperBaseIff == \A t \in SettledTasks : ExactlySlot(World, t)

\* the task a FORK or VFORK handler has made
NewChild == last.pre.thr[last.tid].payload

\* a FORK handler has made a task whose ldpreload_address is set, while the
\* task of another tracee with a filled slot has it unset
C29_Witness ==
    /\ tracer = "running" /\ last.op = "FORK"
    /\ last.ret.tasks[NewChild].ldpreload_address = HelperBase
    /\ ReadTrampolineSlot(last.ret, NewChild) = TrampolineValue
    /\ \E t \in SettledTasks : SlotFilled(World, t) /\ tasks[t].ldpreload_address = NONE

\* the options the claim names
NamedOptions == {"TRACEEXEC", "TRACESECCOMP", "EXITKILL"}

\* the root tracee has installed its filter or is past it
PastFilter == boot.filter \/ boot.child \in {"println", "execvpe", "execve", "program"}

C30_Order ==
    /\ PastFilter => boot.traced /\ boot.seen # <<>> /\ boot.seen[1] = "SIGSTOP"
    /\ PastFilter \/ boot.stop \in {"SECCOMP", "EXEC", "SIGTRAP"} => NamedOptions \subseteq boot.options
    /\ boot.stop # "SIGTRAP"
    /\ boot.child # "none" => REVERIE_GLOBAL_STATE_FD \in boot.child_fds

\* C30: the start.  The root tracee calls PTRACE_TRACEME and stops itself with
\* SIGSTOP before it installs the seccomp filter and execs; the tracer sets
\* the ptrace options (TRACEEXEC, TRACESECCOMP and EXITKILL among them) while
\* the tracee is in that stop and continues it afterwards only, so the tracee
\* has no seccomp stop and no exec before the options are set; and the memfd
\* is at descriptor 1023 before the fork, so the tracee has it.
C30_BootOrdering ==
    [][/\ C30_Order'
       /\ boot'.options # boot.options => boot.stop = "SIGSTOP" /\ boot'.stop = "SIGSTOP"
       /\ boot.stop = "SIGSTOP" /\ boot'.stop = "none" => NamedOptions \subseteq boot.options]_vars

\* the root tracee has made its exec with the filter installed: the tracer
\* saw its SIGSTOP, the seccomp stops of its write and its execve, and now its
\* EXEC event
C30_Witness ==
    /\ boot.child = "program" /\ boot.stop = "EXEC" /\ boot.filter
    /\ boot.seen = <<"SIGSTOP", "SECCOMP", "SECCOMP">>
    /\ boot.tracer = "run_all"
    /\ REVERIE_GLOBAL_STATE_FD \in boot.child_fds

\* patch_syscall has patched a site that was in neither list
C31_Case == FreshSite /\ last.ok /\ tracer = "running"

SavedRegs == last.pre.thr[last.tid].regs

\* The skip came first.  When the wait after the single step reports no
\* SIGTRAP the attempt ends there: no syscall has been injected, no byte
\* written, rip is as at the stop and orig_rax is -1.  When it reports the
\* SIGTRAP the syscall has been skipped and the saved registers are back:
\* they are the registers of the tracee unless patch_at has rewound them.
SkipCameFirst ==
    /\ last.orc.step # "trap"
          => /\ Panicked(last.ret)
             /\ last.ret.eff = NoEffect
             /\ last.ret.mem = last.pre.mem
             /\ last.ret.thr[last.tid].regs = [SavedRegs EXCEPT !.orig_rax = 0 - 1]
    /\ last.orc.step = "trap"
          => /\ last.ret.eff.skipped
             /\ ~last.ret.thr[last.tid].insys
             /\ last.ret.thr[last.tid].regs
                   = IF last.ok THEN Rewound(SavedRegs) ELSE SavedRegs

\* C32: early kernel-skip.  In every patch attempt that gets past the vfork,
\* helper-loaded and site-set checks, the pending syscall is skipped
\* (orig_rax := -1, one single step, its SIGTRAP consumed) before any syscall
\* is injected, rip is changed or tracee memory is written, and the registers
\* saved at the seccomp stop are restored after the skip.
C32_EarlySkip == FreshSite => SkipCameFirst

\* C32, amended: the same of every attempt that gets past the three checks and
\* finds a hook for the site.  An attempt that finds no hook ends before the
\* skip: it returns an error and touches nothing, and the syscall stays
\* pending for the kernel.
C32_EarlySkipOfMatched ==
    FreshSite =>
        IF find_syscall_hook(last.pre, last.tid, last.rip).ok
        THEN SkipCameFirst
        ELSE ~last.ok /\ NothingTouched /\ last.ret.thr[last.tid].insys

\* a hook was found, the skip was made, and a syscall was injected after it
C32_Witness ==
    /\ HookMatched /\ tracer = "running"
    /\ last.ret.eff.skipped /\ last.ret.eff.injected
    /\ last.ret.thr[last.tid].regs = SavedRegs

\* the catalog indices whose prologue bytes are all equal to the first bytes
\* of a window
Matching(hooks, window) ==
    {k \in DOMAIN hooks :
        /\ Len(hooks[k].instructions) <= Len(window)
        /\ \A i \in DOMAIN hooks[k].instructions : hooks[k].instructions[i] = window[i]}

\* the lookup has found the first hook that matches the window, it has found
\* none when none matches, and the length of the patch and the stub slot are
\* those of that hook
FirstMatchOf(window) ==
    LET M == Matching(calc.hooks, window)
    IN  /\ calc.ok <=> M # {}
        /\ M # {} =>
              \E k \in M :
                  /\ \A j \in M : k <= j
                  /\ calc.len = SYSCALL_INSN_SIZE + Len(calc.hooks[k].instructions)
                  /\ calc.slot = (k - 1) * EXTENDED_JUMP_SIZE

C33_Case == calc.f = "find_syscall_hook"

\* C33: catalog lookup reads 16 bytes at rip - 2, the address of the syscall
\* instruction, and compares their prefix with the prologue bytes of each hook
\* in catalog order; the hook chosen is the first one whose prologue bytes all
\* match, also when a later hook matches a longer prefix, and the same hook
\* gives the stub slot and the length of the patch.
C33_FirstMatchAtSite == C33_Case => FirstMatchOf(SubSeq(calc.code, 1, 16))

\* C33, amended: the same with the 16 bytes read at rip, the address that
\* follows the syscall instruction.
C33_FirstMatchAtRip ==
    C33_Case => FirstMatchOf(SubSeq(calc.code, SYSCALL_INSN_SIZE + 1, SYSCALL_INSN_SIZE + 16))

\* two hooks match the bytes at rip, the later one with the longer prologue,
\* and the first one is chosen
C33_Witness ==
    /\ C33_Case
    /\ Matching(calc.hooks, SubSeq(calc.code, SYSCALL_INSN_SIZE + 1, SYSCALL_INSN_SIZE + 16)) = {1, 2}
    /\ Len(calc.hooks[1].instructions) = 3
    /\ Len(calc.hooks[2].instructions) > 3
    /\ calc.len = SYSCALL_INSN_SIZE + 3 /\ calc.slot = 0

\* the address the gap search gives for the site of the trap
GapFound == SearchStubPage(last.pre, last.tid, last.rip, EXTENDED_JUMP_PAGES * PAGE_SIZE).val

\* the ranges of the cached memory map of t hold the page pg
InMemoryMap(w, t, pg) ==
    \E i \in DOMAIN w.memory_map[w.tasks[t].memory_map] :
        /\ w.memory_map[w.tasks[t].memory_map][i].base <= pg
        /\ pg < w.memory_map[w.tasks[t].memory_map][i].end

\* a hook matches, no stub page of the process is in reach of the site, and
\* allocate_extended_jumps has returned Ok
C34_Allocated ==
    /\ HookMatched
    /\ NoStubPageInReach(last.pre, last.tid, last.rip)
    /\ ~NoGap
    /\ last.orc.mmap = "ok"
    /\ last.orc.mprot_stub \in {"ok", "sigchld"}

\* a hook matches and a stub page of the process is in reach of the site
C34_Reused == HookMatched /\ ~NoStubPageInReach(last.pre, last.tid, last.rip)

\* what C34 says of an allocation whose injected mprotect ended as in ends
AllocatedInOrder(ends) ==
    C34_Allocated /\ last.orc.mprot_stub \in ends =>
        /\ Len(last.ret.eff.calls) >= 2
        /\ last.ret.eff.calls[1]
              = [nr |-> SYS_mmap, pg |-> GapFound, n |-> EXTENDED_JUMP_PAGES, prot |-> "rwx"]
        /\ last.ret.eff.calls[2]
              = [nr |-> SYS_mprotect, pg |-> GapFound, n |-> EXTENDED_JUMP_PAGES, prot |-> "r-x"]
        /\ GapFound \in DOMAIN AS(last.ret, last.tid).stubs
        /\ AS(last.ret, last.tid).stubs[GapFound]
              = gen_extended_jump_stubs(SYSCALL_HOOKS, HelperBase)
        /\ StubPagesOf(last.ret, last.tid)
              = Append(StubPagesOf(last.pre, last.tid),
                       [address |-> GapFound, size |-> EXTENDED_JUMP_PAGES,
                        allocated |-> Len(SYSCALL_HOOKS) * EXTENDED_JUMP_SIZE])
        /\ \A p \in GapFound..(GapFound + EXTENDED_JUMP_PAGES - 1) :
              /\ Mapped(last.ret, last.tid, p)
              /\ ~Writable(last.ret, last.tid, p)
              /\ InMemoryMap(last.ret, last.tid, p)

\* C34: when no stub page of the process is reachable from the site, the
\* patcher allocates one in this order: injected mmap of 2 pages at the
\* address found by the gap search with RWX, write of the indirect-jump slots,
\* injected mprotect to R|X, refresh of the cached memory map; on success
\* stub_pages has one more record with that address and size 0x2000, the page
\* is not writable, and memory_map contains the new page.  When a reachable
\* stub page exists, no page is allocated and stub_pages is unchanged.
C34_AllocateInOrder ==
    /\ AllocatedInOrder({"ok", "sigchld"})
    /\ C34_Reused =>
          /\ StubPagesOf(last.ret, last.tid) = StubPagesOf(last.pre, last.tid)
          /\ \A i \in DOMAIN last.ret.eff.calls : last.ret.eff.calls[i].nr # SYS_mmap
          /\ DOMAIN AS(last.ret, last.tid).stubs = DOMAIN AS(last.pre, last.tid).stubs

\* a stub page has been allocated and its record pushed, and the pages are
\* still writable
C34_Witness ==
    /\ C34_Allocated /\ last.ok /\ tracer = "running"
    /\ Len(StubPagesOf(last.ret, last.tid)) = Len(StubPagesOf(last.pre, last.tid)) + 1
    /\ Writable(last.ret, last.tid, GapFound)

\* how many tasks hold the handle h of the field f: the strong count of the Rc
StrongCount(w, f, h) == Cardinality({u \in DOMAIN w.tasks : w.tasks[u][f] = h})

SharedHandles == {"unpatchable_syscalls", "memory_map", "stub_pages"}

\* the collection of task u behind its handle of the field f
Behind(w, u, f) == w[f][w.tasks[u][f]]

\* do_ptrace_exec has run task_reset for the task of the event
C35_Case == last.op = "EXEC" /\ last.ok

C36_Case == calc.f = "extended_jump_from_to" /\ calc.ok

\* C36: for every stub slot address that extended_jump_from_to returns for a
\* site, whether the stub page was reused from stub_pages or newly allocated,
\* the displacement slot - (rip - 2) - 5 lies in [-2^31, 2^31), so the range
\* assertion on rel32 in patch_at never fails.
C36_Rel32InRange ==
    C36_Case =>
        /\ calc.rela = [d |-> calc.target.pg - AddrAdd(calc.rip, 0 - 2).pg,
                        o |-> calc.target.off - AddrAdd(calc.rip, 0 - 2).off - 5]
        /\ RelaInRange(calc.rela.d, calc.rela.o)

\* a stub page that starts 2 GiB below rip is reused for the first hook of
\* the catalog
C36_Witness ==
    /\ C36_Case /\ calc.reused
    /\ calc.rip.off = 0
    /\ calc.pages[1].address = calc.rip.pg - TWO_GB_PAGES
    /\ calc.target = PageAddr(calc.pages[1].address)

\* the bytes of the region that the injected mmap of allocate_extended_jumps
\* allocates (traced_task.rs:390)
StubRegion == EXTENDED_JUMP_PAGES * PAGE_SIZE

C37_Case == calc.f = "gen_extended_jump_stubs" /\ calc.hooks # <<>>

CodeBefore == AS(last.pre, last.tid).text
CodeAfter == AS(last.ret, last.tid).text

\* patch_syscall has patched a site that was in neither list
C38_Case == FreshSite /\ last.ok

\* C38: a successful patch changes exactly the 2 + len(prologue) bytes
\* starting at rip - 2 in the tracee's code: those bytes are the call and its
\* padding, and every other byte of the code is unchanged, also for a patch of
\* less than 8 bytes, which poke_bytes writes as one 8-byte word (the bytes of
\* that word beyond the patch keep their previous value).
C38_ExactBytes ==
    C38_Case =>
        /\ DOMAIN CodeAfter = DOMAIN CodeBefore
        /\ \A s \in DOMAIN CodeBefore \ {PatchIp} : CodeAfter[s] = CodeBefore[s]
        /\ Len(CodeAfter[PatchIp]) = Len(CodeBefore[PatchIp])
        /\ CodeAfter[PatchIp][1] = 232
        /\ \A i \in (PatchLen + 1)..Len(CodeBefore[PatchIp]) :
              CodeAfter[PatchIp][i] = CodeBefore[PatchIp][i]

\* a patch of less than 8 bytes has succeeded, and a byte of its word beyond
\* the patch is not what it was
C38_Witness ==
    /\ C38_Case /\ tracer = "running"
    /\ PatchLen < 8
    /\ \E i \in (PatchLen + 1)..8 : CodeAfter[PatchIp][i] # CodeBefore[PatchIp][i]

\* a handler has run for a task and the tracer goes on
C39_Handled == last.op # "none" /\ tracer = "running" /\ last.tid \in DOMAIN last.pre.tasks

\* the handler has passed the stored SIGCHLD to the tracee and the task is
\* still there
C39_Delivered == C39_Handled /\ last.ret.eff.sig = "SIGCHLD" /\ last.tid \in DOMAIN tasks

\* C39: a SIGCHLD that the injector stored in signal_to_deliver is delivered
\* to the tracee exactly once: it stays stored until a resume passes it to the
\* tracee (it is not dropped), and it is cleared once delivered, so that no
\* further resume of that task delivers it again.
C39_DeliveredOnce ==
    /\ C39_Delivered => tasks[last.tid].signal_to_deliver = "None"
    /\ /\ C39_Handled
       /\ last.pre.tasks[last.tid].signal_to_deliver = "SIGCHLD"
       /\ last.ret.eff.sig # "SIGCHLD"
       /\ last.tid \in DOMAIN tasks
       => tasks[last.tid].signal_to_deliver = "SIGCHLD"

\* the SIGCHLD stored while a site was patched is cleared by the reset of an
\* exec without having been passed to the tracee
C39_Witness ==
    /\ C39_Handled /\ last.op = "EXEC" /\ last.ok
    /\ last.pre.tasks[last.tid].signal_to_deliver = "SIGCHLD"
    /\ last.ret.eff.sig = "None"
    /\ tasks[last.tid].signal_to_deliver = "None"

\* the SYSCALL_TRAMPOLINE slot of the tracee reads zero or cannot be read
SlotEmpty(w, t) == ReadTrampolineSlot(w, t) \in {NONE, 0}

\* a task outside a vfork traps while the helper library is not loaded in its
\* tracee
C40_Case ==
    /\ PatchRan
    /\ ~last.pre.tasks[last.tid].in_vfork
    /\ SlotEmpty(last.pre, last.tid)

\* C40: while the helper library is not loaded in the tracee, patch_syscall
\* returns an error with no side effect on the tracee and records nothing: the
\* site is in neither patched_syscalls nor unpatchable_syscalls, so that it
\* can still be patched on a later trap once the helper is loaded.
C40_NotLoadedNoEffect ==
    C40_Case =>
        /\ ~last.ok
        /\ NothingTouched
        /\ last.ret.tasks[last.tid].ldpreload_address = NONE
        /\ last.rip \notin PatchedSites(last.ret, last.tid)
        /\ last.rip \notin UnpatchableSites(last.ret, last.tid)

\* the trap of a site that an earlier image of the task had patched, in a new
\* image in which the helper is not loaded
C40_Witness ==
    /\ C40_Case /\ tracer = "running"
    /\ ~last.ok /\ NothingTouched
    /\ last.rip \in PatchedSites(last.ret, last.tid)

====
